---------------------------- MODULE Spec2Model ----------------------------
(***************************************************************************)
(* Conversation-context and reply-routing state of the fact-checking       *)
(* chatbot backend (WhatsApp / Telegram webhooks), with the pure helpers   *)
(* the webhook handlers and processors are built from.                     *)
(*                                                                         *)
(* Text is modelled as a sequence of tokens (Seq(STRING)): a token is one  *)
(* character in the normalizer, one word or one fixed literal elsewhere.   *)
(* String concatenation is \o, so joins, prefixes and f-strings are        *)
(* computed, not assumed.                                                  *)
(***************************************************************************)
EXTENDS Integers, Sequences, FiniteSets, TLC

VARIABLES
    message_context,            \* processors.message_context: user key -> list of lines
    message_id_to_bot_message,  \* processors.message_id_to_bot_message
    button_id_to_claim,         \* processors.button_id_to_claim
    tasks,                      \* background tasks, one queue per handled request
    nextId,                     \* next message id the platform will assign
    http,                       \* the last webhook request and the answer it got
    sent,                       \* what the platform send API accepted, by platform id
    built,                      \* the context string most recently built, and where
    norm,                       \* message normalizer: input and output
    intent,                     \* detect_intent: generator answer and result
    send,                       \* platform adapter: one send request and its dispatches
    verify,                     \* GET /webhook handshake: request and answer
    disp,                       \* dispatcher: one turn of handle_message_with_intent
    parse,                      \* parse_factiverse_response: response and result
    boot,                       \* start-up: what each module's dict names are bound to
    retry                       \* retrying client: one call, its attempts and waits

mainVars == <<message_context, message_id_to_bot_message, button_id_to_claim,
              tasks, nextId, http, sent, built>>
vars == <<message_context, message_id_to_bot_message, button_id_to_claim,
          tasks, nextId, http, sent, built, norm, intent, send, verify, disp, parse,
          boot, retry>>

----------------------------------------------------------------------------
(* Sequence helpers                                                        *)

Range(s) == {s[i] : i \in 1..Len(s)}

\* The concatenation of a sequence of sequences, by halves so that the depth
\* of the evaluation grows with the logarithm of the length.
RECURSIVE Flatten(_)
Flatten(ss) ==
    IF ss = <<>> THEN <<>>
    ELSE IF Len(ss) = 1 THEN ss[1]
    ELSE LET mid == Len(ss) \div 2
         IN  Flatten(SubSeq(ss, 1, mid)) \o Flatten(SubSeq(ss, mid + 1, Len(ss)))

\* All sequences over S of length at most n.
SeqsUpTo(S, n) == UNION {[1..k -> S] : k \in 0..n}

\* str.replace(old, new) for a one-token `old` and a token sequence `new`.
Replace(s, old, new) ==
    Flatten([i \in 1..Len(s) |-> IF s[i] = old THEN new ELSE <<s[i]>>])

\* sep.join(parts)
RECURSIVE Join(_, _)
Join(parts, sep) ==
    IF parts = <<>> THEN <<>>
    ELSE IF Len(parts) = 1 THEN parts[1]
    ELSE parts[1] \o <<sep>> \o Join(Tail(parts), sep)

Whitespace == {" ", "\n", "NBSP"}

RECURSIVE LStrip(_)
LStrip(s) == IF s # <<>> /\ Head(s) \in Whitespace THEN LStrip(Tail(s)) ELSE s

RECURSIVE RStrip(_)
RStrip(s) ==
    IF s # <<>> /\ s[Len(s)] \in Whitespace
    THEN RStrip(SubSeq(s, 1, Len(s) - 1)) ELSE s

\* str.strip()
Strip(s) == RStrip(LStrip(s))

\* The idle values of the variables a specification does not use.
Idle == [pc |-> "idle"]

----------------------------------------------------------------------------
(* Message normalizer (api/whatsapp/routers.py, platform/telegram/routers) *)
(* One token is one character.  DQ is U+0022, SQ U+0027, LDQ/RDQ U+201C/D, *)
(* LSQ/RSQ U+2018/9, NBSP U+00A0, ENDASH U+2013, EMDASH U+2014, ELLIPSIS   *)
(* U+2026, FWDQ U+FF02 (fullwidth quotation mark).                         *)

MaxRawLen == 3

RawChars == {"a", " ", "DQ", "LDQ", "RSQ", "NBSP", "ELLIPSIS", "FWDQ", "EMDASH"}

\* unicodedata.normalize("NFKD", raw_text): compatibility decomposition.
NFKDChar(c) ==
    CASE c = "NBSP"     -> <<" ">>
      [] c = "ELLIPSIS" -> <<".", ".", ".">>
      [] c = "FWDQ"     -> <<"DQ">>
      [] OTHER          -> <<c>>

NFKD(s) == Flatten([i \in 1..Len(s) |-> NFKDChar(s[i])])

\* The `replacements` dict, in insertion order.
replacements ==
    << <<"NBSP", <<" ">> >>,
       <<"LSQ", <<"SQ">> >>,
       <<"RSQ", <<"SQ">> >>,
       <<"LDQ", <<"DQ">> >>,
       <<"RDQ", <<"DQ">> >>,
       <<"ENDASH", <<"-">> >>,
       <<"EMDASH", <<"-", "-">> >>,
       <<"ELLIPSIS", <<".", ".", ".">> >> >>

RECURSIVE ApplyReplacements(_, _)
ApplyReplacements(s, table) ==
    IF table = <<>> THEN s
    ELSE ApplyReplacements(Replace(s, Head(table)[1], Head(table)[2]), Tail(table))

\* message_text = normalize("NFKD", raw).replace('"', "'").strip(); then the table.
normalize(raw_text) ==
    ApplyReplacements(Strip(Replace(NFKD(raw_text), "DQ", <<"SQ">>)), replacements)

NormInit == norm \in {[pc |-> "raw", raw |-> r, text |-> <<>>] :
                        r \in SeqsUpTo(RawChars, MaxRawLen)}

NormalizeText ==
    /\ norm.pc = "raw"
    /\ norm' = [norm EXCEPT !.pc = "normalized", !.text = normalize(norm.raw)]
    /\ UNCHANGED <<mainVars, intent, send, verify, disp, parse, boot, retry>>

MainIdle ==
    /\ message_context = <<>>
    /\ message_id_to_bot_message = <<>>
    /\ button_id_to_claim = <<>>
    /\ tasks = <<>>
    /\ nextId = 1
    /\ http = [pc |-> "idle", n |-> 0]
    /\ sent = <<>>
    /\ built = Idle

InitNormalize ==
    /\ NormInit /\ MainIdle
    /\ intent = Idle /\ send = Idle /\ verify = Idle /\ disp = Idle
    /\ parse = Idle
    /\ boot = Idle /\ retry = Idle

NextNormalize == NormalizeText

SpecNormalize == InitNormalize /\ [][NextNormalize]_vars

\* C6: the normalized text of every raw input contains no double-quote
\* character (every double quote has become a single quote).
C6_NoDoubleQuoteInNormalizedText ==
    norm.pc = "normalized" => "DQ" \notin Range(norm.text)


----------------------------------------------------------------------------
(* detect_intent: the generator's answer to the intent-classification      *)
(* prompt is parsed with json.loads.  An answer is a sequence of JSON      *)
(* tokens; generate() returns "" (the empty sequence) when its call fails. *)

MaxAnswerLen == 5

JsonStrings == {"\"intent_type\"", "\"fact_check\"", "\"general\""}
JsonTokens == {"{", "}", ":", "not json"} \cup JsonStrings

\* The Python str a JSON string token decodes to.
Unquote(tok) ==
    CASE tok = "\"intent_type\"" -> "intent_type"
      [] tok = "\"fact_check\""  -> "fact_check"
      [] tok = "\"general\""     -> "general"

\* The documents of the JSON grammar that fit in the token alphabet: a bare
\* string, the empty object, an object with one string member.
IsJson(answer) ==
    \/ Len(answer) = 1 /\ answer[1] \in JsonStrings
    \/ answer = <<"{", "}">>
    \/ /\ Len(answer) = 5
       /\ answer[1] = "{" /\ answer[2] \in JsonStrings /\ answer[3] = ":"
       /\ answer[4] \in JsonStrings /\ answer[5] = "}"

\* json.loads(answer) for an answer with IsJson(answer).
json_loads(answer) ==
    IF Len(answer) = 1 THEN [kind |-> "str", value |-> Unquote(answer[1])]
    ELSE IF Len(answer) = 2 THEN [kind |-> "dict", value |-> <<>>]
    ELSE [kind |-> "dict",
          value |-> (Unquote(answer[2]) :> Unquote(answer[4]))]

\* src/intent/utils.py: the fallback of the earlier revision.
detect_intent_legacy(intent_response) ==
    IF IsJson(intent_response) THEN json_loads(intent_response)
    ELSE [kind |-> "dict",
          value |-> [intent_type |-> "fact_check", confidence |-> "0.7",
                     sentiment |-> "neutral", context_reference |-> "False",
                     url_present |-> "False"]]

\* src/core/utils/intent.py: the revision the handlers import.
detect_intent(intent_response) ==
    IF IsJson(intent_response) THEN json_loads(intent_response)
    ELSE [kind |-> "dict", value |-> [intent_type |-> "general"]]

\* dict.get(key) on a parsed answer: "None" when the key is absent.
DictGet(d, key) == IF key \in DOMAIN d THEN d[key] ELSE "None"

IntentInit == intent \in {[pc |-> "answer", response |-> a] :
                            a \in SeqsUpTo(JsonTokens, MaxAnswerLen)}

DetectIntent ==
    /\ intent.pc = "answer"
    /\ intent' = [pc |-> "detected", response |-> intent.response,
                  core |-> detect_intent(intent.response),
                  legacy |-> detect_intent_legacy(intent.response)]
    /\ UNCHANGED <<mainVars, norm, send, verify, disp, parse, boot, retry>>

InitIntent ==
    /\ IntentInit /\ MainIdle
    /\ norm = Idle /\ send = Idle /\ verify = Idle /\ disp = Idle
    /\ parse = Idle
    /\ boot = Idle /\ retry = Idle

NextIntent == DetectIntent

SpecIntent == InitIntent /\ [][NextIntent]_vars

\* A parsed result routes the message to fact-checking.
IsFactCheckIntent(r) ==
    r.kind = "dict" /\ DictGet(r.value, "intent_type") = "fact_check"

\* C7: when the generator's answer is not valid JSON, detect_intent (both
\* revisions) returns a fallback object whose intent_type is fact_check.
C7_MalformedAnswerFallsBackToFactCheck ==
    (intent.pc = "detected" /\ ~IsJson(intent.response)) =>
        IsFactCheckIntent(intent.core) /\ IsFactCheckIntent(intent.legacy)

----------------------------------------------------------------------------
(* GET /webhook: the platform's verification handshake (code/main.py).     *)
(* "None" is Python's None: a query parameter that is absent, or an        *)
(* environment variable that is not set.                                   *)

Modes == {"None", "subscribe", "unsubscribe"}
Tokens == {"None", "secret", "guess"}
Challenges == {"None", "c1", "c2"}
ConfiguredTokens == {"None", "secret"}

\* verify_token(): os.getenv("WEBHOOK_VERIFY_TOKEN")
\* whatsapp_get(request); PlainTextResponse(content=None) has an empty body.
whatsapp_get(mode, token, challenge, configured) ==
    IF mode = "subscribe" /\ token = configured
    THEN [status |-> 200, body |-> IF challenge = "None" THEN "" ELSE challenge]
    ELSE [status |-> 403, body |-> "Verification failed"]

VerifyInit == verify \in {[pc |-> "request", mode |-> m, token |-> t,
                           challenge |-> c, configured |-> v] :
                            m \in Modes, t \in Tokens, c \in Challenges,
                            v \in ConfiguredTokens}

VerifyWebhook ==
    /\ verify.pc = "request"
    /\ verify' = [verify EXCEPT !.pc = "answered"] @@
                 [response |-> whatsapp_get(verify.mode, verify.token,
                                            verify.challenge, verify.configured)]
    /\ UNCHANGED <<mainVars, norm, intent, send, disp, parse, boot, retry>>

InitVerify ==
    /\ VerifyInit /\ MainIdle
    /\ norm = Idle /\ intent = Idle /\ send = Idle /\ disp = Idle
    /\ parse = Idle
    /\ boot = Idle /\ retry = Idle

NextVerify == VerifyWebhook

SpecVerify == InitVerify /\ [][NextVerify]_vars

\* C10: the handshake answers 200 with the challenge only when hub.mode is
\* 'subscribe' and the request carries a hub.verify_token equal to the
\* configured token; every other request, a request with a missing
\* parameter included, is answered 403 'Verification failed'.
C10_HandshakeOnlyWithModeAndToken ==
    verify.pc = "answered" =>
        LET complete == /\ verify.mode # "None" /\ verify.token # "None"
                        /\ verify.challenge # "None"
            accepted == /\ complete /\ verify.mode = "subscribe"
                        /\ verify.token = verify.configured
        IN  IF accepted
            THEN verify.response = [status |-> 200, body |-> verify.challenge]
            ELSE verify.response = [status |-> 403, body |-> "Verification failed"]


----------------------------------------------------------------------------
(* Platform adapters (platform/whatsapp/utils.py, platform/telegram/       *)
(* utils.py).  An adapter decides on the length of the text alone, so it   *)
(* takes len(response); a dispatched body is described by the number of    *)
(* leading characters of the text it carries (take), whether "..." was     *)
(* appended, and the length of what was put in front of the text.          *)

MAX_WHATSAPP_LENGTH == 4096
MAX_TELEGRAM_LENGTH == 4096
MAX_LIST_MESSAGE_LENGTH == 1000
WA_RATING_PROMPT_LEN == 35      \* len("Please rate the above response ...")
TG_RATING_PROMPT_LEN == 35      \* len of the rating keyboard's prompt and "\n\n"
HTML_BOLD_GAIN == 5             \* "*x*" becomes "<b>x</b>"

BodyLen(b) == b.prefix + b.take + (IF b.ellipsis THEN 3 ELSE 0)

\* The text as it is: no length validation.
Whole(n) == [about |-> "response", prefix |-> 0, take |-> n, ellipsis |-> FALSE]

\* message[: MAX - 3] + "..." when len(message) > MAX
Truncated(n, max) ==
    IF n > max
    THEN [about |-> "response", prefix |-> 0, take |-> max - 3, ellipsis |-> TRUE]
    ELSE Whole(n)

Post(api, body, ok) == [api |-> api, body |-> body, ok |-> ok]

\* The result of an adapter call: the HTTP posts it made, in order, whether it
\* raised, and the post whose platform answer it returned (0: none).
Outcome(posts, returned) ==
    [dispatched |-> posts, raised |-> returned = 0, returned |-> returned]

send_whatsapp_message(n, ok) ==
    Post("text", Truncated(n, MAX_WHATSAPP_LENGTH), ok)

wa_send_interactive_buttons(n, ok) == Post("buttons", Whole(n), ok)

send_list_message(body, ok) == Post("list", body, ok)

\* send_rating_message: a long response goes out as plain text followed by a
\* list message that carries the rating prompt; a short one is the body of the
\* list message, with plain text as the fallback.  oks[i]: the i-th post succeeds.
send_rating_message(n, oks) ==
    IF n > MAX_LIST_MESSAGE_LENGTH
    THEN IF ~oks[1]
         THEN Outcome(<<send_whatsapp_message(n, FALSE)>>, 0)
         ELSE Outcome(<<send_whatsapp_message(n, TRUE),
                        send_list_message([about |-> "rating_prompt",
                                           prefix |-> WA_RATING_PROMPT_LEN,
                                           take |-> 0, ellipsis |-> FALSE],
                                          oks[2])>>,
                      IF oks[2] THEN 2 ELSE 0)
    ELSE IF oks[1]
         THEN Outcome(<<send_list_message(Whole(n), TRUE)>>, 1)
         ELSE Outcome(<<send_list_message(Whole(n), FALSE),
                        send_whatsapp_message(n, oks[2])>>,
                      IF oks[2] THEN 2 ELSE 0)

process_whatsapp_message(n, buttons, add_rating, oks) ==
    IF buttons
    THEN Outcome(<<wa_send_interactive_buttons(n, oks[1])>>, IF oks[1] THEN 1 ELSE 0)
    ELSE IF add_rating THEN send_rating_message(n, oks)
    ELSE Outcome(<<send_whatsapp_message(n, oks[1])>>, IF oks[1] THEN 1 ELSE 0)

\* len(convert_markdown_to_html(text)) for a text with `bold` *...* spans.
convert_markdown_to_html(n, bold) == n + HTML_BOLD_GAIN * bold

send_telegram_message(n, ok) ==
    Post("text", Truncated(n, MAX_TELEGRAM_LENGTH), ok)

tg_send_interactive_buttons(n, ok) == Post("buttons", Whole(n), ok)

send_rating_keyboard(n, ok) ==
    Post("keyboard", [about |-> "response", prefix |-> TG_RATING_PROMPT_LEN,
                      take |-> n, ellipsis |-> FALSE], ok)

process_telegram_message(n, bold, buttons, add_rating, oks) ==
    LET html == convert_markdown_to_html(n, bold)
        post == IF buttons THEN tg_send_interactive_buttons(html, oks[1])
                ELSE IF add_rating THEN send_rating_keyboard(html, oks[1])
                ELSE send_telegram_message(html, oks[1])
    IN  Outcome(<<post>>, IF oks[1] THEN 1 ELSE 0)

MaxOver == 2        \* lengths up to this many characters over the limit
MaxBold == 1        \* bold spans in a response

SendLengths ==
    {1, MAX_LIST_MESSAGE_LENGTH, MAX_LIST_MESSAGE_LENGTH + 1}
    \cup {MAX_WHATSAPP_LENGTH + k : k \in (0 - 6)..MaxOver}

HttpOutcomes == [1..2 -> BOOLEAN]

SendInit == send \in {[pc |-> "request", platform |-> p, len |-> n, bold |-> b,
                       buttons |-> bt, add_rating |-> r] :
                        p \in {"whatsapp", "telegram"}, n \in SendLengths,
                        b \in 0..MaxBold, bt \in BOOLEAN, r \in BOOLEAN}

ProcessWhatsappMessage ==
    /\ send.pc = "request" /\ send.platform = "whatsapp"
    /\ \E oks \in HttpOutcomes :
         send' = [send EXCEPT !.pc = "done"] @@
                 [out |-> process_whatsapp_message(send.len, send.buttons,
                                                   send.add_rating, oks)]
    /\ UNCHANGED <<mainVars, norm, intent, verify, disp, parse, boot, retry>>

ProcessTelegramMessage ==
    /\ send.pc = "request" /\ send.platform = "telegram"
    /\ \E oks \in HttpOutcomes :
         send' = [send EXCEPT !.pc = "done"] @@
                 [out |-> process_telegram_message(send.len, send.bold, send.buttons,
                                                   send.add_rating, oks)]
    /\ UNCHANGED <<mainVars, norm, intent, verify, disp, parse, boot, retry>>

InitSend ==
    /\ SendInit /\ MainIdle
    /\ norm = Idle /\ intent = Idle /\ verify = Idle /\ disp = Idle
    /\ parse = Idle
    /\ boot = Idle /\ retry = Idle

NextSend == ProcessWhatsappMessage \/ ProcessTelegramMessage

SpecSend == InitSend /\ [][NextSend]_vars

\* The posts of a finished send that carry the response text.
ResponsePosts ==
    {i \in 1..Len(send.out.dispatched) :
        send.out.dispatched[i].body.about = "response"}

\* C8: a response longer than 4096 characters is dispatched as its first 4093
\* characters followed by '...', a shorter one unchanged, on every send path
\* of both platforms: no dispatched body exceeds 4096 characters.
C8_EveryDispatchTruncatedTo4096 ==
    send.pc = "done" =>
        \A i \in ResponsePosts :
            LET b == send.out.dispatched[i].body
            IN  /\ BodyLen(b) <= MAX_WHATSAPP_LENGTH
                /\ send.len > MAX_WHATSAPP_LENGTH =>
                     b.take = MAX_WHATSAPP_LENGTH - 3 /\ b.ellipsis
                /\ (send.len <= MAX_WHATSAPP_LENGTH /\ send.platform = "whatsapp") =>
                     b = Whole(send.len)


----------------------------------------------------------------------------
(* Claim/intent dispatcher (core/handlers/handlers.py).  A message is the  *)
(* sequence of its whitespace-separated words; the external services       *)
(* (fact_check, stance_detection, detect_claims, detect_intent, generate,  *)
(* the random button ids) answer as the environment `env` says.            *)

WORD_THRESHOLD == 100
MaxClaims == 3          \* claims the classifier or claim detection returns
MaxSuggestions == 4     \* 'Claim N:' lines in the generator's suggestion answer

UrlWords == {"http://a", "https://b"}

\* re.findall(r"https?://\S+", message_text): a match never spans whitespace.
FindUrls(message_text) == SelectSeq(message_text, LAMBDA w : w \in UrlWords)

\* Variant: a count that is one too high.
WordCountPlusOne(message_text) == Len(message_text) + 1

\* len(message_text.split())
WordCount(message_text) == Len(message_text)

Words(n) == [i \in 1..n |-> "w"]

ClaimTexts == << <<"c1">>, <<"c2">>, <<"c3">>, <<"c4">>, <<"c5">> >>
ClaimHeaders == <<"Claim 1: ", "Claim 2: ", "Claim 3: ", "Claim 4: ", "Claim 5: ">>
ButtonTitles == <<"Claim 1", "Claim 2", "Claim 3", "Claim 4", "Claim 5">>
ButtonIds == {"b1", "b2"}

SERVICE_ISSUE == <<"Temporary service issue. Please try again!">>

\* What a fact_check / stance_detection call can do: raise, or return a result
\* whose cleaned evidence list is empty or not.
CallOutcomes == {"raise", "empty", "evidence"}

Call(fn, arg) == [fn |-> fn, arg |-> arg]

\* f"{clean_facts(result)}\n": the repr of the cleaned list and a newline.
EvidenceLine(subject, outcome) ==
    (IF outcome = "empty" THEN <<"[]">> ELSE <<"[{">> \o subject \o <<"}]">>)
    \o <<"\n">>

\* get_prompt(key, message_text=..., context=...): the template of `key` with the
\* two fields, double quotes replaced by single quotes, filled in.
get_prompt(key, message_text, context) ==
    <<key, "{message_text}">> \o Replace(message_text, "DQ", <<"SQ">>)
    \o <<"{context}">> \o Replace(context, "DQ", <<"SQ">>)

\* The index of the first call that raises, 0 when none does.
FirstRaise(outcomes) ==
    IF \E i \in 1..Len(outcomes) : outcomes[i] = "raise"
    THEN CHOOSE i \in 1..Len(outcomes) :
            /\ outcomes[i] = "raise"
            /\ \A j \in 1..(i - 1) : outcomes[j] # "raise"
    ELSE 0

\* Variant: gather without return_exceptions, where the first exception ends
\* the batch and only the evidence gathered before it is kept.
GatherEvidenceUntilFirstRaise(claims, stance) ==
    LET r == FirstRaise(stance)
        n == IF r = 0 THEN Len(claims) ELSE r - 1
    IN  Flatten([i \in 1..n |-> EvidenceLine(claims[i], stance[i])])

\* asyncio.gather(*claim_tasks, return_exceptions=True) and the loop over its
\* results: the evidence of the calls that returned, in claim order.
GatherEvidence(claims, stance) ==
    Flatten([i \in 1..Len(claims) |->
                IF stance[i] = "raise" THEN <<>>
                ELSE EvidenceLine(claims[i], stance[i])])

handle_fact_check_intent(message_text, context, claims, urls, fact, stance) ==
    LET r == FirstRaise(fact)
        urlCalls == [i \in 1..(IF r = 0 THEN Len(urls) ELSE r) |->
                        Call("fact_check", <<urls[i]>>)]
        urlText == Flatten([i \in 1..Len(urls) |-> EvidenceLine(<<urls[i]>>, fact[i])])
        stanceCalls == [i \in 1..Len(claims) |-> Call("stance_detection", claims[i])]
    IN  IF r # 0
        THEN [raised |-> TRUE, prompt |-> <<>>, evidence |-> <<>>, calls |-> urlCalls]
        ELSE [raised |-> FALSE,
              prompt |-> get_prompt("fact_check", message_text, context),
              evidence |-> urlText \o GatherEvidence(claims, stance),
              calls |-> urlCalls \o stanceCalls]

\* text.split("\n")
RECURSIVE SplitLines(_)
SplitLines(text) ==
    IF \E i \in 1..Len(text) : text[i] = "\n"
    THEN LET i == CHOOSE k \in 1..Len(text) :
                    text[k] = "\n" /\ \A j \in 1..(k - 1) : text[j] # "\n"
         IN  <<SubSeq(text, 1, i - 1)>> \o SplitLines(SubSeq(text, i + 1, Len(text)))
    ELSE <<text>>

\* The generator's answer to the suggestion prompt with k 'Claim N: ...' lines.
SuggestionAnswer(k) ==
    Join([i \in 1..k |-> <<ClaimHeaders[i]>> \o ClaimTexts[i]], "\n")

\* dict built by successive assignment: a later key overwrites an earlier one.
RECURSIVE DictOf(_, _)
DictOf(keys, values) ==
    IF keys = <<>> THEN <<>>
    ELSE LET n == Len(keys)
             rest == DictOf(SubSeq(keys, 1, n - 1), SubSeq(values, 1, n - 1))
         IN  (keys[n] :> values[n]) @@ rest

\* handle_claim_suggestions: the tuple (buttons, btn_id_to_claim, response).
handle_claim_suggestions(message_text, context, answer, ids) ==
    LET lines == SplitLines(answer)
        hits == SelectSeq(lines, LAMBDA l : l # <<>> /\ Head(l) \in Range(ClaimHeaders))
        claims == [i \in 1..Len(hits) |-> Strip(Tail(hits[i]))]
        buttons == [i \in 1..Len(claims) |-> [id |-> ids[i], title |-> ButtonTitles[i]]]
    IN  [kind |-> "tuple", via |-> "suggest", response |-> answer,
         buttons |-> buttons,
         btn_id_to_claim |-> DictOf([i \in 1..Len(claims) |-> ids[i]], claims)]

Text(via, response) ==
    [kind |-> IF response = <<>> THEN "none" ELSE "str", via |-> via,
     response |-> response, buttons |-> <<>>, btn_id_to_claim |-> <<>>]

\* What follows handle_fact_check_intent in the three fact-check branches:
\* suggestions when the evidence text is "[]", the generator's answer
\* otherwise, the service-issue text when handle_fact_check_intent raised.
AfterFactCheck(fc, message_text, context, env) ==
    (IF fc.raised THEN Text("service_issue", SERVICE_ISSUE)
     ELSE IF Strip(fc.evidence) = <<"[]">>
     THEN handle_claim_suggestions(message_text, context, env.sugg, env.ids)
     ELSE Text("generate", env.gen))
    @@ [fc |-> fc,
        calls |-> fc.calls \o
                  (IF fc.raised THEN <<>>
                   ELSE IF Strip(fc.evidence) = <<"[]">>
                   THEN <<Call("generate", <<"claim_suggestion">>)>>
                   ELSE <<Call("generate", <<"fact_check">>)>>)]

FactCheckBranch(message_text, context, claims, urls, env) ==
    AfterFactCheck(handle_fact_check_intent(message_text, context, claims, urls,
                                            env.fact, env.stance),
                   message_text, context, env)

NoFactCheck == [raised |-> FALSE, prompt |-> <<>>, evidence |-> <<>>, calls |-> <<>>]

handle_general_intent(message_text, context, env) ==
    Text("general", env.gen) @@
    [fc |-> NoFactCheck, calls |-> <<Call("generate", <<"general">>)>>]

handle_message_with_intent(message_text, context, env) ==
    LET urls == FindUrls(message_text)
    IN  IF urls # <<>>
        THEN FactCheckBranch(message_text, context, <<>>, urls, env)
        ELSE IF WordCount(message_text) >= WORD_THRESHOLD
        THEN LET found == FactCheckBranch(message_text, context, env.detected, <<>>, env)
                 none == handle_general_intent(message_text, context, env)
                 r == IF env.detected = <<>> THEN none ELSE found
             IN  [r EXCEPT !.calls = <<Call("detect_claims", message_text)>> \o @]
        ELSE LET data == env.intent
                 seen == <<Call("detect_intent", message_text)>>
                 intent_type == DictGet(data.value, "intent_type")
                 split_claims == IF "split_claims" \in DOMAIN data.value
                                 THEN data.value["split_claims"] ELSE <<>>
                 claims == IF split_claims = <<>>
                           THEN <<message_text>> ELSE split_claims
                 r == IF intent_type = "fact_check"
                      THEN FactCheckBranch(message_text, context, claims, <<>>, env)
                      ELSE IF intent_type = "general"
                      THEN handle_general_intent(message_text, context, env)
                      ELSE handle_claim_suggestions(message_text, context,
                                                    env.sugg, env.ids)
                           @@ [fc |-> NoFactCheck,
                               calls |-> <<Call("generate", <<"claim_suggestion">>)>>]
             IN  IF data.kind # "dict"
                 THEN [kind |-> "raise", via |-> "raise", response |-> <<>>,
                       buttons |-> <<>>, btn_id_to_claim |-> <<>>,
                       fc |-> NoFactCheck, calls |-> seen]
                 ELSE [r EXCEPT !.calls = seen \o @]


\* The messages of the dispatcher's turns: short, with one URL, with two URLs,
\* just under and at the word threshold.
DispMessages ==
    { <<"hi">>, <<"see", "http://a">>, <<"http://a", "and", "https://b">>,
      Words(WORD_THRESHOLD - 1), Words(WORD_THRESHOLD) }

Answers == { <<>>, <<"answer">> }

ClaimLists == {SubSeq(ClaimTexts, 1, k) : k \in 0..MaxClaims}

IntentTypes == {"fact_check", "general", "other"}

\* What detect_intent hands to the dispatcher: a JSON value that is no object,
\* an object without intent_type, or an object with intent_type and, possibly,
\* split_claims.
IntentDatas ==
    {[kind |-> "str", value |-> <<>>], [kind |-> "dict", value |-> <<>>]}
    \cup {[kind |-> "dict", value |-> ("intent_type" :> t @@ "split_claims" :> c)] :
            t \in IntentTypes, c \in ClaimLists}

NoIntent == [kind |-> "dict", value |-> <<>>]

\* The ids random.choices draws for the buttons: two ids in turn, the same
\* one every time (a collision), or a fresh one for every button.
FreshIds == <<"b1", "b2", "b3", "b4", "b5", "b6">>

DrawnIds ==
    { [i \in 1..MaxSuggestions |-> IF i % 2 = 1 THEN "b1" ELSE "b2"],
      [i \in 1..MaxSuggestions |-> "b1"],
      [i \in 1..MaxSuggestions |-> FreshIds[i]] }

Suggestions ==
    {[sugg |-> SuggestionAnswer(k), ids |-> i] :
        k \in 0..MaxSuggestions, i \in DrawnIds}

Env(fact, stance, detected, data, gen, s) ==
    [fact |-> fact, stance |-> stance, detected |-> detected, intent |-> data,
     gen |-> gen, sugg |-> s.sugg, ids |-> s.ids]

\* The environments of a turn: only the services the message's branch calls
\* answer freely.
Envs(message_text) ==
    IF FindUrls(message_text) # <<>>
    THEN {Env(f, <<>>, <<>>, NoIntent, g, s) :
            f \in [1..Len(FindUrls(message_text)) -> CallOutcomes],
            g \in Answers, s \in Suggestions}
    ELSE IF WordCount(message_text) >= WORD_THRESHOLD
    THEN UNION {{Env(<<>>, st, d, NoIntent, g, s) :
                    st \in [1..Len(d) -> CallOutcomes],
                    g \in Answers, s \in Suggestions} : d \in ClaimLists}
    ELSE UNION {{Env(<<>>, st, <<>>, data, g, s) :
                    st \in [1..(IF "split_claims" \in DOMAIN data.value
                                   /\ data.value["split_claims"] # <<>>
                                THEN Len(data.value["split_claims"]) ELSE 1)
                            -> CallOutcomes],
                    g \in Answers, s \in Suggestions} : data \in IntentDatas}

DispInit == disp \in {[pc |-> "message", message_text |-> m, context |-> <<>>] :
                        m \in DispMessages}

HandleMessageWithIntent ==
    /\ disp.pc = "message"
    /\ \E env \in Envs(disp.message_text) :
         disp' = [disp EXCEPT !.pc = "handled"] @@
                 [env |-> env,
                  result |-> handle_message_with_intent(disp.message_text,
                                                        disp.context, env)]
    /\ UNCHANGED <<mainVars, norm, intent, send, verify, parse, boot, retry>>

InitDispatch ==
    /\ DispInit /\ MainIdle
    /\ norm = Idle /\ intent = Idle /\ send = Idle /\ verify = Idle
    /\ parse = Idle
    /\ boot = Idle /\ retry = Idle

NextDispatch == HandleMessageWithIntent

SpecDispatch == InitDispatch /\ [][NextDispatch]_vars


\* The turn fact-checks claims: no URL, and either claim detection found claims
\* or the classifier answered fact_check.
IsClaimsTurn ==
    /\ disp.pc = "handled"
    /\ FindUrls(disp.message_text) = <<>>
    /\ IF WordCount(disp.message_text) >= WORD_THRESHOLD
       THEN disp.env.detected # <<>>
       ELSE /\ disp.env.intent.kind = "dict"
            /\ DictGet(disp.env.intent.value, "intent_type") = "fact_check"

\* The turn fact-checks something and every fact_check / stance_detection call
\* returns a result with no evidence.
IsNoEvidenceTurn ==
    /\ disp.pc = "handled"
    /\ IF FindUrls(disp.message_text) # <<>>
       THEN \A i \in DOMAIN disp.env.fact : disp.env.fact[i] = "empty"
       ELSE /\ IsClaimsTurn
            /\ \A i \in DOMAIN disp.env.stance : disp.env.stance[i] = "empty"

\* C4: whenever the fact-check of a turn returns no evidence (one URL, several
\* URLs, one or several claims, all results empty), handle_message_with_intent
\* returns the claim-suggestion tuple, never the apology and never the
\* generator's answer to the fact-check prompt.
C4_NoEvidenceEndsInSuggest ==
    IsNoEvidenceTurn =>
        disp.result.kind = "tuple" /\ disp.result.via = "suggest"

\* C5: for every list of claims and every subset of them whose
\* stance_detection call raises, handle_fact_check_intent makes all the calls,
\* does not raise, and returns the evidence of exactly the claims whose call
\* returned, in claim order; the turn goes on to a generator call and never
\* ends in the apology.
C5_FailingClaimNeverAbortsBatch ==
    IsClaimsTurn =>
        LET fc == disp.result.fc
            stance == disp.env.stance
            called == SelectSeq(fc.calls, LAMBDA c : c.fn = "stance_detection")
            ok == SelectSeq([i \in 1..Len(stance) |-> i],
                            LAMBDA i : stance[i] # "raise")
        IN  /\ ~fc.raised
            /\ Len(called) = Len(stance)
            /\ fc.evidence =
                 Flatten([k \in 1..Len(ok) |->
                            EvidenceLine(called[ok[k]].arg, stance[ok[k]])])
            /\ disp.result.via \in {"generate", "suggest"}
            /\ disp.result.calls[Len(disp.result.calls)].fn = "generate"

\* Three claims, the call for the second raises, the first and third return.
C5_SecondOfThreeRaises ==
    /\ IsClaimsTurn
    /\ disp.env.stance = <<"evidence", "raise", "evidence">>
    /\ disp.result.fc.evidence =
         EvidenceLine(ClaimTexts[1], "evidence") \o EvidenceLine(ClaimTexts[3], "evidence")
    /\ disp.result.via = "generate"


----------------------------------------------------------------------------
(* Webhook handlers (api/whatsapp/routers.py, platform/telegram/routers.py) *)
(* and the background tasks they schedule (core/processors/processors.py).  *)
(* A handler runs to its return without awaiting anything but the request   *)
(* body, so it is one step.  The tasks of a request run one after the other *)
(* once the answer is out; tasks of different requests interleave at their  *)
(* awaits: the dispatcher's service calls and the platform send.            *)

MaxEvents == 2      \* webhook requests in a behaviour

WaEntryIds == {"waba"}          \* entry.id of the webhook payload
WaPhones == {"p1"}              \* contacts[0].wa_id
TgChats == {"c1"}               \* message.chat.id

\* The ids the platforms assign to the messages the bot sends.
WaIds == <<"wamid.1", "wamid.2", "wamid.3", "wamid.4">>
TgIds == <<"1", "2", "3", "4">>

PlatformId(platform, k) == IF platform = "whatsapp" THEN WaIds[k] ELSE TgIds[k]

UNTRACKED == "wamid.0"          \* id of a message the table never recorded
UNKNOWN_BUTTON == "b0"          \* a button id the table never recorded
INBOUND == "in"                 \* id of the inbound message

RawTexts == { <<"hi">>, <<"LDQ", "hi", "RDQ">> }

\* A numeric rating as the rating keyboard sends it: digit, keycap, space, label.
RatingTexts == { <<"5", "KEYCAP", " ", "Great">> }

Digits == {"0", "1", "2", "3", "4", "5", "6", "7", "8", "9"}

BotAnswer == <<"DQ", "answer", "DQ">>

REQUEST_APOLOGY == <<"Sorry, I encountered an error processing your request.">>
NO_RESULT_MESSAGE ==
    <<"Sorry, I couldn't process your request. Please try again or rephrase your message.">>
CLAIM_APOLOGY == <<"Sorry, I encountered an error checking this claim.">>
IMAGE_APOLOGY == <<"Sorry, I encountered an error processing your image.">>
NO_IMAGE_TEXT == <<"I can only understand text in images... No text was found in this one.">>
NO_IMAGE_ID == <<"No image ID found. Please try again.">>
UNSUPPORTED_TYPE == <<"Sorry, I can only process text and image messages.">>

RatingThanks(rating_value) == <<"Thanks for your ", rating_value, "-star rating!">>

\* The lines of the conversation context.
UserLine(message_text) == <<"User: ">> \o message_text \o <<"\n">>
BotLine(response) == <<"Bot: ">> \o response \o <<"\n">>
\* Variant: the title alone.
SelectedLineBare(button_title) == <<button_title, "\n">>
\* f"User selected: {button_title}\n"
SelectedLine(button_title) == <<"User selected: ", button_title, "\n">>
ReactionLine(emoji, id_reacted_to) ==
    <<"User reacted with '", emoji, "' on message '", id_reacted_to, "'\n">>
RatingLine(rating_value, rating_text) ==
    <<"User rated with '", rating_value, "' (">> \o rating_text \o <<")\n">>
ImageLine(text_from_image) ==
    <<"User sent image with text: ">>
    \o (IF text_from_image.none THEN <<"None">> ELSE text_from_image.text)
    \o <<"\n">>

\* Variant: lines[:], the last line kept.
AllLines(lines) == lines

\* lines[:-1]
AllButLast(lines) == SubSeq(lines, 1, Len(lines) - 1)

\* Variant: every key is taken to be in the table.
TrackedAlways(table, key) == TRUE

\* key in table
Tracked(table, key) == key \in DOMAIN table

\* table[key]: the value, or KeyError.
Subscript(table, key) ==
    IF key \in DOMAIN table
    THEN [raised |-> FALSE, value |-> table[key]]
    ELSE [raised |-> TRUE, value |-> <<>>]

\* table.get(key, default)
Get(table, key, default) == IF key \in DOMAIN table THEN table[key] ELSE default

\* What a handler got from message_id_to_bot_message: whether the id was in
\* the table, the value stored there, and the text the handler goes on with.
NotResolved == [found |-> FALSE, value |-> <<>>, used |-> <<>>]

Build(site, user_id, context, lines) ==
    [pc |-> "built", site |-> site, user_id |-> user_id, context |-> context,
     lines |-> lines]

\* background_tasks.add_task(fn, ...): a task at its first statement.
NewTask(fn, platform, user_id, to, message_text, context, claim) ==
    [fn |-> fn, pc |-> "start", platform |-> platform, user_id |-> user_id,
     to |-> to, message_text |-> message_text, context |-> context,
     claim |-> claim, response |-> <<>>, buttons |-> <<>>, add_rating |-> TRUE,
     on_error |-> <<>>, outer |-> <<>>]

TrackedTask(platform, user_id, to, response, add_rating) ==
    [NewTask("process_tracked_message", platform, user_id, to, <<>>, <<>>, <<>>)
        EXCEPT !.response = response, !.add_rating = add_rating]

FeedbackTask(fn, value, claim_text) ==
    NewTask(fn, "", "", "", <<value>>, <<>>, claim_text)

\* ---- WhatsApp: POST /webhook ----

\* Variant: the outer handler swallows the exception and acknowledges.
MessageProcessingErrorSwallowed(mc) ==
    [code |-> 200, status |-> "received", message_context |-> mc,
     queue |-> <<>>, built |-> <<>>, resolved |-> NotResolved]

\* except Exception: raise HTTPException(500, "Message processing error")
MessageProcessingError(mc) ==
    [code |-> 500, status |-> "Message processing error", message_context |-> mc,
     queue |-> <<>>, built |-> <<>>, resolved |-> NotResolved]

\* return {"status": "received"}
Received(mc, queue, blt, resolved) ==
    [code |-> 200, status |-> "received", message_context |-> mc,
     queue |-> queue, built |-> blt, resolved |-> resolved]

\* The payloads a request can carry: no valid envelope, an entry without
\* messages (a status update), or one entry with one change and one message.
WaMessages ==
    {[type |-> "text", body |-> r, context |-> c] :
        r \in RawTexts,
        c \in {"None", UNTRACKED} \cup DOMAIN message_id_to_bot_message}
    \cup {[type |-> "interactive", kind |-> "button_reply", id |-> b, title |-> "Claim 1"] :
            b \in {UNKNOWN_BUTTON} \cup DOMAIN button_id_to_claim}
    \cup {[type |-> "interactive", kind |-> "list_reply"]}
    \cup {[type |-> "reaction", has_reaction |-> TRUE, emoji |-> e, message_id |-> i] :
            e \in {"THUMBS_UP", "HEART"},
            i \in {UNTRACKED} \cup DOMAIN message_id_to_bot_message}
    \cup {[type |-> "reaction", has_reaction |-> FALSE]}
    \cup {[type |-> "image", image_id |-> i, caption |-> <<>>] : i \in {"img", "None"}}
    \cup {[type |-> "audio"]}

WaPayloads ==
    {[shape |-> "invalid"], [shape |-> "status"]}
    \cup {[shape |-> "message", entry_id |-> e, wa_id |-> p, message |-> m] :
            e \in WaEntryIds, p \in WaPhones, m \in WaMessages}

receive_message(payload, mc, id_to_message, id_to_claim) ==
    IF payload.shape = "invalid" THEN MessageProcessingError(mc)
    ELSE IF payload.shape = "status" THEN Received(mc, <<>>, <<>>, NotResolved)
    ELSE
    LET user_id == payload.entry_id
        phone_number == payload.wa_id
        message == payload.message
        ctx == IF user_id \in DOMAIN mc THEN mc ELSE (user_id :> <<>>) @@ mc
        lines == ctx[user_id]
        Stored(new) == [ctx EXCEPT ![user_id] = new]
        Respond(text, context) ==
            NewTask("process_message_response", "whatsapp", user_id, phone_number,
                    text, context, <<>>)
        Tell(error_msg) ==
            TrackedTask("whatsapp", user_id, phone_number, error_msg, TRUE)
    IN  CASE message.type = "text" ->
                LET message_text == normalize(message.body)
                    appended == Append(lines, UserLine(message_text))
                IN  IF message.context # "None" /\ Tracked(id_to_message, message.context)
                    THEN LET got == Subscript(id_to_message, message.context)
                             replied_to == Replace(got.value, "DQ", <<"SQ">>)
                             context == Join(lines, "\n")
                                        \o <<"\n\nUser is currently replying to: ">>
                                        \o replied_to \o <<"\n">>
                         IN  IF got.raised
                             THEN Received(ctx, <<>>, <<>>, NotResolved)
                             ELSE Received(ctx, <<Respond(message_text, context)>>,
                                           <<Build("whatsapp reply", user_id, context, lines)>>,
                                           [found |-> TRUE, value |-> got.value, used |-> replied_to])
                    ELSE LET context == Join(AllButLast(appended), "\n")
                         IN  Received(Stored(appended),
                                      <<Respond(message_text, context)>>,
                                      <<Build("whatsapp text", user_id, context, appended)>>,
                                      NotResolved)
          [] message.type = "interactive" ->
                IF message.kind = "button_reply" /\ Tracked(id_to_claim, message.id)
                THEN LET got == Subscript(id_to_claim, message.id)
                         context == Join(lines, "\n")
                         appended == Append(lines, SelectedLine(message.title))
                     IN  IF got.raised
                         THEN Received(ctx, <<>>, <<>>, NotResolved)
                         ELSE Received(Stored(appended),
                                       <<NewTask("process_fact_check_response", "whatsapp",
                                                 user_id, phone_number, <<message.title>>,
                                                 context, got.value)>>,
                                       <<Build("whatsapp button", user_id, context, appended)>>,
                                       NotResolved)
                ELSE Received(ctx, <<>>, <<>>, NotResolved)
          [] message.type = "reaction" ->
                IF ~message.has_reaction THEN MessageProcessingError(ctx)
                ELSE LET appended == Append(lines, ReactionLine(message.emoji,
                                                                message.message_id))
                         original_text == Get(id_to_message, message.message_id, <<>>)
                     IN  IF message.emoji \in {"THUMBS_UP", "THUMBS_DOWN"}
                         THEN Received(Stored(appended),
                                       <<FeedbackTask("process_reaction", message.emoji,
                                                      original_text)>>,
                                       <<>>,
                                       [found |-> message.message_id \in DOMAIN id_to_message,
                                        value |-> original_text,
                                        used |-> original_text])
                         ELSE Received(Stored(appended), <<>>, <<>>, NotResolved)
          [] message.type = "image" ->
                IF message.image_id # "None"
                THEN Received(ctx, <<NewTask("process_image_response", "whatsapp", user_id,
                                             phone_number, message.caption, <<>>, <<>>)>>,
                              <<>>, NotResolved)
                ELSE Received(ctx, <<Tell(NO_IMAGE_ID)>>, <<>>, NotResolved)
          [] OTHER -> Received(ctx, <<Tell(UNSUPPORTED_TYPE)>>, <<>>, NotResolved)

\* ---- Telegram: POST /tgwebhook ----

\* Every answer of the Telegram handler is a returned dict: HTTP 200.
TgAnswer(status, mc, queue, blt) ==
    [code |-> 200, status |-> status, message_context |-> mc, queue |-> queue,
     built |-> blt, resolved |-> NotResolved]

\* re.match(r"^(\d)<keycap>\s+(.+)$", message_text)
rating_match(message_text) ==
    /\ Len(message_text) >= 4
    /\ message_text[1] \in Digits
    /\ message_text[2] = "KEYCAP"
    /\ message_text[3] \in Whitespace
    /\ LStrip(SubSeq(message_text, 3, Len(message_text))) # <<>>

\* The updates a request can carry, as extract_message_data reads them:
\* one it cannot read, one without message or callback_query, a callback, a
\* text message, a photo, a message with neither text nor photo.
TgUpdates ==
    {[shape |-> "malformed"], [shape |-> "none"]}
    \cup {[shape |-> "callback_query", chat_id |-> c, callback_data |-> b] :
            c \in TgChats, b \in {UNKNOWN_BUTTON} \cup DOMAIN button_id_to_claim}
    \cup {[shape |-> "message", chat_id |-> c, text |-> t] :
            c \in TgChats, t \in RawTexts \cup RatingTexts}
    \cup {[shape |-> "image", chat_id |-> c, caption |-> <<>>] : c \in TgChats}
    \cup {[shape |-> "other", chat_id |-> c] : c \in TgChats}

telegram_webhook(update, db_ok, mc, id_to_claim) ==
    CASE update.shape = "malformed" -> TgAnswer("error", mc, <<>>, <<>>)
      [] update.shape = "none" -> TgAnswer("Error", mc, <<>>, <<>>)
      [] update.shape = "callback_query" ->
            IF Tracked(id_to_claim, update.callback_data)
            THEN LET got == Subscript(id_to_claim, update.callback_data)
                     user_id == update.chat_id
                     lines == IF user_id \in DOMAIN mc THEN mc[user_id] ELSE <<>>
                     context == IF user_id \in DOMAIN mc
                                THEN Join(mc[user_id], "\n") ELSE <<>>
                 IN  IF got.raised THEN TgAnswer("error", mc, <<>>, <<>>)
                     ELSE TgAnswer("processing", mc,
                                   <<NewTask("process_fact_check_response", "telegram",
                                             user_id, update.chat_id, got.value,
                                             context, got.value)>>,
                                   <<Build("telegram callback", user_id, context, lines)>>)
            ELSE TgAnswer("success", mc, <<>>, <<>>)
      [] update.shape = "message" ->
            LET user_id == update.chat_id
            IN  IF ~db_ok THEN TgAnswer("error", mc, <<>>, <<>>)
                ELSE IF rating_match(update.text)
                THEN LET rating_value == update.text[1]
                         rating_text == LStrip(SubSeq(update.text, 3, Len(update.text)))
                     IN  IF user_id \notin DOMAIN mc
                         THEN TgAnswer("error", mc, <<>>, <<>>)
                         ELSE TgAnswer("rating_processed",
                                       [mc EXCEPT ![user_id] =
                                           Append(@, RatingLine(rating_value, rating_text))],
                                       <<FeedbackTask("process_rating", rating_value,
                                                      <<INBOUND>>),
                                         TrackedTask("telegram", user_id, update.chat_id,
                                                     RatingThanks(rating_value), FALSE)>>,
                                       <<>>)
                ELSE LET message_text == normalize(update.text)
                         ctx == IF user_id \in DOMAIN mc THEN mc
                                ELSE (user_id :> <<>>) @@ mc
                         appended == Append(ctx[user_id], UserLine(message_text))
                         context == Join(AllButLast(appended), "\n")
                     IN  TgAnswer("processing", [ctx EXCEPT ![user_id] = appended],
                                  <<NewTask("process_message_response", "telegram", user_id,
                                            update.chat_id, message_text, context, <<>>)>>,
                                  <<Build("telegram text", user_id, context, appended)>>)
      [] update.shape = "image" ->
            LET user_id == update.chat_id
                ctx == IF user_id \in DOMAIN mc THEN mc ELSE (user_id :> <<>>) @@ mc
            IN  IF ~db_ok THEN TgAnswer("error", mc, <<>>, <<>>)
                ELSE TgAnswer("processing_image", ctx,
                              <<NewTask("process_image_response", "telegram", user_id,
                                        update.chat_id, update.caption, <<>>, <<>>)>>,
                              <<>>)
      [] OTHER -> TgAnswer("success", mc, <<>>, <<>>)

\* ---- Background tasks ----

\* Variant: the user's sequence is replaced by the bot line instead of being
\* extended with it.
process_tracked_message_overwriting(mc, task, response, buttons, add_rating, on_error) ==
    IF task.user_id \notin DOMAIN mc
    THEN [message_context |-> mc, raised |-> TRUE, task |-> task]
    ELSE [message_context |-> [mc EXCEPT ![task.user_id] = <<BotLine(response)>>],
          raised |-> FALSE,
          task |-> [task EXCEPT !.pc = "sending", !.response = response,
                                !.buttons = buttons, !.add_rating = add_rating,
                                !.on_error = on_error]]

\* process_tracked_message up to its await: the Bot line is appended before
\* the send starts; an unknown user key is a KeyError, logged and re-raised.
process_tracked_message(mc, task, response, buttons, add_rating, on_error) ==
    IF task.user_id \notin DOMAIN mc
    THEN [message_context |-> mc, raised |-> TRUE, task |-> task]
    ELSE [message_context |-> [mc EXCEPT ![task.user_id] = Append(@, BotLine(response))],
          raised |-> FALSE,
          task |-> [task EXCEPT !.pc = "sending", !.response = response,
                                !.buttons = buttons, !.add_rating = add_rating,
                                !.on_error = on_error]]

\* Variant: the suggestions are sent without being recorded.
RecordNoButtons(id_to_claim, btn_id_to_claim) == id_to_claim

\* for btn_id, claim in btn_id_to_claim.items(): button_id_to_claim[btn_id] = claim
RecordButtons(id_to_claim, btn_id_to_claim) == btn_id_to_claim @@ id_to_claim

\* Variant: the table keeps the text with its double quotes replaced.
RecordSanitizedBotMessage(id_to_message, bot_message_id, response) ==
    (bot_message_id :> Replace(response, "DQ", <<"SQ">>)) @@ id_to_message

\* message_id_to_bot_message[bot_message_id] = response
RecordBotMessage(id_to_message, bot_message_id, response) ==
    (bot_message_id :> response) @@ id_to_message

FactCheckIntent == [kind |-> "dict", value |-> ("intent_type" :> "fact_check")]
GeneralIntent == [kind |-> "dict", value |-> ("intent_type" :> "general")]
NotAnObject == [kind |-> "str", value |-> <<>>]

TwoSuggestions == [sugg |-> SuggestionAnswer(2), ids |-> <<"b1", "b2">>]

\* random.choices draws the same five characters for both suggestions.
SameIdTwice == [sugg |-> SuggestionAnswer(2), ids |-> <<"b1", "b1">>]

\* What the services answer during one turn of a short message.
TurnEnvs ==
    {Env(<<>>, <<o>>, <<>>, d, g, s) :
        o \in CallOutcomes, d \in {FactCheckIntent, GeneralIntent, NotAnObject},
        g \in {<<>>, BotAnswer}, s \in {TwoSuggestions, SameIdTwice}}

\* process_message_response after handle_message_with_intent has returned or
\* raised: the buttons of a suggestion are recorded, then the text is sent.
SendResult(result, task, mc, id_to_claim) ==
    LET tracked ==
            process_tracked_message(
                mc, task,
                CASE result.kind = "raise" -> REQUEST_APOLOGY
                  [] result.kind = "none" -> NO_RESULT_MESSAGE
                  [] OTHER -> result.response,
                IF result.kind = "tuple" THEN result.buttons ELSE <<>>,
                TRUE,
                IF result.kind = "raise" THEN task.outer
                ELSE <<REQUEST_APOLOGY>> \o task.outer)
    IN  [message_context |-> tracked.message_context,
         button_id_to_claim |-> IF result.kind = "tuple"
                                THEN RecordButtons(id_to_claim, result.btn_id_to_claim)
                                ELSE id_to_claim,
         raised |-> tracked.raised, task |-> tracked.task]

process_message_response(task, env, mc, id_to_claim) ==
    SendResult(handle_message_with_intent(task.message_text, task.context, env),
               task, mc, id_to_claim)

\* process_fact_check_response after handle_fact_check_intent has returned.
SendFactCheck(fc, suggestion_data, task, env, mc, id_to_claim) ==
    LET suggest == ~fc.raised /\ Strip(fc.evidence) = <<"[]">>
        tracked ==
            process_tracked_message(
                mc, task,
                IF fc.raised THEN CLAIM_APOLOGY
                ELSE IF suggest THEN suggestion_data.response ELSE env.gen,
                IF suggest THEN suggestion_data.buttons ELSE <<>>,
                TRUE,
                IF fc.raised THEN <<>> ELSE <<CLAIM_APOLOGY>>)
    IN  [message_context |-> tracked.message_context,
         button_id_to_claim |-> IF suggest
                                THEN RecordButtons(id_to_claim,
                                                   suggestion_data.btn_id_to_claim)
                                ELSE id_to_claim,
         raised |-> tracked.raised, task |-> tracked.task]

process_fact_check_response(task, env, mc, id_to_claim) ==
    SendFactCheck(handle_fact_check_intent(task.message_text, task.context,
                                           <<task.claim>>, <<>>, <<>>, env.stance),
                  handle_claim_suggestions(task.message_text, task.context,
                                           env.sugg, env.ids),
                  task, env, mc, id_to_claim)

\* handle_image: None when fetching or reading the image fails, else the text
\* found in the image and the caption, either of which can be missing.
handle_image(image_text, caption) ==
    IF image_text = <<"fail">> THEN [none |-> TRUE, text |-> <<>>]
    ELSE [none |-> FALSE,
          text |-> (IF image_text # <<>> THEN <<"Image text: ">> \o image_text ELSE <<>>)
                   \o (IF caption # <<>> THEN <<"\nCaption: ">> \o caption ELSE <<>>)]

ImageReadings == { <<"fail">>, <<>>, <<"claim">> }

process_image_response(task, image_text, mc) ==
    LET text_from_image == handle_image(image_text, task.message_text)
        known == task.user_id \in DOMAIN mc
        appended == Append(mc[task.user_id], ImageLine(text_from_image))
        stored == [mc EXCEPT ![task.user_id] = appended]
        context == Join(AllButLast(appended), "\n")
        t == process_tracked_message(stored, task, NO_IMAGE_TEXT, <<>>, TRUE,
                                     <<IMAGE_APOLOGY>>)
    IN  IF ~known
        THEN [message_context |-> mc, raised |-> TRUE, task |-> task, built |-> <<>>]
        ELSE IF text_from_image.none \/ Strip(text_from_image.text) = <<>>
        THEN [message_context |-> t.message_context, raised |-> FALSE,
              task |-> t.task, built |-> <<>>]
        ELSE [message_context |-> stored, raised |-> FALSE,
              task |-> [task EXCEPT !.pc = "handling",
                                    !.message_text = text_from_image.text,
                                    !.context = context,
                                    !.outer = <<IMAGE_APOLOGY>>],
              built |-> <<Build("image", task.user_id, context, appended)>>]

\* The queue of request q, its head task and what becomes of the queues.
HeadTask(q) == tasks[q][1]
ReplaceHead(q, task) == [tasks EXCEPT ![q][1] = task]
DropQueue(q) == SubSeq(tasks, 1, q - 1) \o SubSeq(tasks, q + 1, Len(tasks))
FinishHead(q) == IF Len(tasks[q]) = 1 THEN DropQueue(q)
                 ELSE [tasks EXCEPT ![q] = Tail(@)]

\* ---- Actions ----

WhatsappReceiveMessage ==
    /\ http.n < MaxEvents
    /\ \E payload \in WaPayloads :
         LET r == receive_message(payload, message_context,
                                  message_id_to_bot_message, button_id_to_claim)
         IN  /\ message_context' = r.message_context
             /\ tasks' = IF r.queue = <<>> THEN tasks ELSE Append(tasks, r.queue)
             /\ built' = IF r.built = <<>> THEN built ELSE r.built[1]
             /\ http' = [pc |-> "answered", n |-> http.n + 1, platform |-> "whatsapp",
                         event |-> payload, code |-> r.code, status |-> r.status,
                         resolved |-> r.resolved]
    /\ UNCHANGED <<message_id_to_bot_message, button_id_to_claim, nextId, sent,
                   norm, intent, send, verify, disp, parse, boot, retry>>

TelegramWebhook ==
    /\ http.n < MaxEvents
    /\ \E update \in TgUpdates, db_ok \in BOOLEAN :
         LET r == telegram_webhook(update, db_ok, message_context, button_id_to_claim)
         IN  /\ message_context' = r.message_context
             /\ tasks' = IF r.queue = <<>> THEN tasks ELSE Append(tasks, r.queue)
             /\ built' = IF r.built = <<>> THEN built ELSE r.built[1]
             /\ http' = [pc |-> "answered", n |-> http.n + 1, platform |-> "telegram",
                         event |-> update, code |-> r.code, status |-> r.status,
                         resolved |-> r.resolved]
    /\ UNCHANGED <<message_id_to_bot_message, button_id_to_claim, nextId, sent,
                   norm, intent, send, verify, disp, parse, boot, retry>>

\* process_message_response from its start to the await of the send, also
\* when process_image_response has called it.
ProcessMessageResponse ==
    \E q \in DOMAIN tasks :
        /\ \/ HeadTask(q).fn = "process_message_response" /\ HeadTask(q).pc = "start"
           \/ HeadTask(q).fn = "process_image_response" /\ HeadTask(q).pc = "handling"
        /\ \E env \in TurnEnvs :
             LET r == process_message_response(HeadTask(q), env, message_context,
                                               button_id_to_claim)
             IN  /\ message_context' = r.message_context
                 /\ button_id_to_claim' = r.button_id_to_claim
                 /\ tasks' = IF r.raised THEN DropQueue(q) ELSE ReplaceHead(q, r.task)
        /\ UNCHANGED <<message_id_to_bot_message, nextId, http, sent, built,
                       norm, intent, send, verify, disp, parse, boot, retry>>

ProcessFactCheckResponse ==
    \E q \in DOMAIN tasks :
        /\ HeadTask(q).fn = "process_fact_check_response" /\ HeadTask(q).pc = "start"
        /\ \E env \in TurnEnvs :
             LET r == process_fact_check_response(HeadTask(q), env, message_context,
                                                  button_id_to_claim)
             IN  /\ message_context' = r.message_context
                 /\ button_id_to_claim' = r.button_id_to_claim
                 /\ tasks' = IF r.raised THEN DropQueue(q) ELSE ReplaceHead(q, r.task)
        /\ UNCHANGED <<message_id_to_bot_message, nextId, http, sent, built,
                       norm, intent, send, verify, disp, parse, boot, retry>>

ProcessImageResponse ==
    \E q \in DOMAIN tasks :
        /\ HeadTask(q).fn = "process_image_response" /\ HeadTask(q).pc = "start"
        /\ \E image_text \in ImageReadings :
             LET r == process_image_response(HeadTask(q), image_text, message_context)
             IN  /\ message_context' = r.message_context
                 /\ tasks' = IF r.raised THEN DropQueue(q) ELSE ReplaceHead(q, r.task)
                 /\ built' = IF r.built = <<>> THEN built ELSE r.built[1]
        /\ UNCHANGED <<message_id_to_bot_message, button_id_to_claim, nextId, http, sent,
                       norm, intent, send, verify, disp, parse, boot, retry>>

\* process_tracked_message scheduled by a handler, up to the await of the send.
ProcessTrackedMessage ==
    \E q \in DOMAIN tasks :
        /\ HeadTask(q).fn = "process_tracked_message" /\ HeadTask(q).pc = "start"
        /\ LET r == process_tracked_message(message_context, HeadTask(q),
                                            HeadTask(q).response, <<>>,
                                            HeadTask(q).add_rating, <<>>)
           IN  /\ message_context' = r.message_context
               /\ tasks' = IF r.raised THEN DropQueue(q) ELSE ReplaceHead(q, r.task)
        /\ UNCHANGED <<message_id_to_bot_message, button_id_to_claim, nextId, http, sent,
                       built, norm, intent, send, verify, disp, parse, boot, retry>>

\* The send a task awaits returns or raises.  A platform answer carries the
\* id of the sent message, recorded with the response; an exception goes to
\* the enclosing handler, which sends its apology the same way, or ends the
\* task and with it the rest of the request's queue.
TrackedSendCompletes ==
    \E q \in DOMAIN tasks :
        /\ HeadTask(q).pc = "sending"
        /\ \E oks \in HttpOutcomes :
             LET task == HeadTask(q)
                 n == Len(task.response)
                 out == IF task.platform = "whatsapp"
                        THEN process_whatsapp_message(n, task.buttons # <<>>,
                                                      task.add_rating, oks)
                        ELSE process_telegram_message(n, 0, task.buttons # <<>>,
                                                      task.add_rating, oks)
                 bot_message_id == PlatformId(task.platform, nextId)
                 again == process_tracked_message(message_context, task, Head(task.on_error),
                                                  <<>>, TRUE, Tail(task.on_error))
             IN  IF ~out.raised
                 THEN /\ nextId <= Len(WaIds)
                      /\ message_id_to_bot_message' =
                            RecordBotMessage(message_id_to_bot_message, bot_message_id,
                                             task.response)
                      /\ sent' = (bot_message_id :> [response |-> task.response,
                                                     to |-> task.to]) @@ sent
                      /\ nextId' = nextId + 1
                      /\ tasks' = FinishHead(q)
                      /\ UNCHANGED message_context
                 ELSE IF task.on_error = <<>>
                 THEN /\ tasks' = DropQueue(q)
                      /\ UNCHANGED <<message_context, message_id_to_bot_message, sent, nextId>>
                 ELSE /\ message_context' = again.message_context
                      /\ tasks' = ReplaceHead(q, again.task)
                      /\ UNCHANGED <<message_id_to_bot_message, sent, nextId>>
        /\ UNCHANGED <<button_id_to_claim, http, built, norm, intent, send, verify, disp, parse, boot, retry>>

\* process_reaction: the feedback goes to the database; failures are logged.
ProcessReaction ==
    \E q \in DOMAIN tasks :
        /\ HeadTask(q).fn = "process_reaction"
        /\ tasks' = FinishHead(q)
        /\ UNCHANGED <<message_context, message_id_to_bot_message, button_id_to_claim,
                       nextId, http, sent, built, norm, intent, send, verify, disp, parse, boot, retry>>

\* process_rating: as process_reaction.
ProcessRating ==
    \E q \in DOMAIN tasks :
        /\ HeadTask(q).fn = "process_rating"
        /\ tasks' = FinishHead(q)
        /\ UNCHANGED <<message_context, message_id_to_bot_message, button_id_to_claim,
                       nextId, http, sent, built, norm, intent, send, verify, disp, parse, boot, retry>>

Init ==
    /\ MainIdle
    /\ norm = Idle /\ intent = Idle /\ send = Idle /\ verify = Idle /\ disp = Idle
    /\ parse = Idle
    /\ boot = Idle /\ retry = Idle

Next ==
    \/ WhatsappReceiveMessage
    \/ TelegramWebhook
    \/ ProcessMessageResponse
    \/ ProcessFactCheckResponse
    \/ ProcessImageResponse
    \/ ProcessTrackedMessage
    \/ TrackedSendCompletes
    \/ ProcessReaction
    \/ ProcessRating

Spec == Init /\ [][Next]_vars


\* C1 as stated: wherever a context string is built for a user with N >= 1
\* stored lines, it is the first N-1 lines joined by a newline.
C1_ContextIsAllButLastLineEverywhere ==
    (built.pc = "built" /\ Len(built.lines) >= 1) =>
        built.context = Join(SubSeq(built.lines, 1, Len(built.lines) - 1), "\n")

\* C1, amended: where the handler or processor appends the line of the current
\* turn (WhatsApp text that is no reply to a tracked message, WhatsApp button
\* reply, Telegram text, image processor) the context string is the first N-1
\* of the N stored lines joined by a newline, in insertion order; where it
\* appends nothing (WhatsApp reply to a tracked message, Telegram callback) the
\* context string is all N stored lines joined by a newline, followed in the
\* reply case by the 'User is currently replying to' note.
C1_ContextPerBuildSite ==
    built.pc = "built" =>
        LET n == Len(built.lines)
            earlier == Join(SubSeq(built.lines, 1, n - 1), "\n")
            all == Join(built.lines, "\n")
            c == built.context
        IN  /\ built.site \in {"whatsapp text", "whatsapp button", "telegram text", "image"} =>
                n >= 1 /\ c = earlier
            /\ built.site = "telegram callback" => c = all
            /\ built.site = "whatsapp reply" =>
                /\ Len(c) >= Len(all) + 2
                /\ SubSeq(c, 1, Len(all)) = all
                /\ c[Len(all) + 1] = "\n\nUser is currently replying to: "
                /\ c[Len(c)] = "\n"

\* A reply to a tracked message when two lines are stored: both are in the
\* context string.
C1_ReplyContextKeepsLastLine ==
    /\ built.pc = "built" /\ built.site = "whatsapp reply"
    /\ Len(built.lines) >= 2
    /\ SubSeq(built.context, 1, Len(Join(built.lines, "\n"))) = Join(built.lines, "\n")

\* C2 as stated: once process_tracked_message has sent a response t and
\* recorded the platform's id for it, a later quoted reply or thumbs reaction
\* that refers to the id gets exactly t.
C2_ResolveYieldsExactText ==
    (http.pc = "answered" /\ http.platform = "whatsapp"
     /\ http.event.shape = "message") =>
        LET m == http.event.message
        IN  /\ (m.type = "text" /\ m.context \in DOMAIN sent) =>
                 http.resolved.found /\ http.resolved.used = sent[m.context].response
            /\ (m.type = "reaction" /\ m.has_reaction /\ m.emoji = "THUMBS_UP"
                /\ m.message_id \in DOMAIN sent) =>
                 http.resolved.found /\ http.resolved.used = sent[m.message_id].response

\* C2, amended: once process_tracked_message has sent a response t and
\* recorded the platform's id for it, the table holds exactly t under that id
\* from then on; a later thumbs reaction that refers to the id hands exactly t
\* to process_reaction, and a later quoted reply that refers to it puts t
\* with every double quote replaced by a single quote into the context string.
C2_TableKeepsTextReplySanitizesIt ==
    /\ \A id \in DOMAIN sent :
        /\ id \in DOMAIN message_id_to_bot_message
        /\ message_id_to_bot_message[id] = sent[id].response
    /\ (http.pc = "answered" /\ http.platform = "whatsapp"
        /\ http.event.shape = "message") =>
            LET m == http.event.message
                Sanitized(t) == [i \in 1..Len(t) |-> IF t[i] = "DQ" THEN "SQ" ELSE t[i]]
            IN  /\ (m.type = "text" /\ m.context \in DOMAIN sent) =>
                     /\ http.resolved.found
                     /\ http.resolved.value = sent[m.context].response
                     /\ http.resolved.used = Sanitized(sent[m.context].response)
                /\ (m.type = "reaction" /\ m.has_reaction /\ m.emoji = "THUMBS_UP"
                    /\ m.message_id \in DOMAIN sent) =>
                     /\ http.resolved.found
                     /\ http.resolved.value = sent[m.message_id].response
                     /\ http.resolved.used = sent[m.message_id].response

\* A quoted reply to the recorded answer of an earlier turn: the table gives
\* the answer, the handler goes on with its double quotes replaced.
C2_ReplyResolvesAnswer ==
    /\ http.pc = "answered" /\ http.platform = "whatsapp"
    /\ http.event.shape = "message" /\ http.event.message.type = "text"
    /\ http.event.message.context \in DOMAIN sent
    /\ sent[http.event.message.context].response = BotAnswer
    /\ http.resolved.value = BotAnswer
    /\ http.resolved.used = <<"SQ", "answer", "SQ">>

\* C3: a webhook request that refers to an id absent from the routing tables
\* (quoted reply or reaction to an untracked message id, button reply or
\* Telegram callback with an unknown button id) is answered with the handler's
\* normal success status, and the handler leaves message_id_to_bot_message and
\* button_id_to_claim as they were.
C3_UnknownIdIsNormalOutcome ==
    [][ (/\ http'.n = http.n + 1
         /\ \/ /\ http'.platform = "whatsapp" /\ http'.event.shape = "message"
               /\ \/ /\ http'.event.message.type = "text"
                     /\ http'.event.message.context # "None"
                     /\ http'.event.message.context \notin DOMAIN message_id_to_bot_message
                  \/ /\ http'.event.message.type = "reaction"
                     /\ http'.event.message.has_reaction
                     /\ http'.event.message.message_id \notin DOMAIN message_id_to_bot_message
                  \/ /\ http'.event.message.type = "interactive"
                     /\ http'.event.message.kind = "button_reply"
                     /\ http'.event.message.id \notin DOMAIN button_id_to_claim
            \/ /\ http'.platform = "telegram" /\ http'.event.shape = "callback_query"
               /\ http'.event.callback_data \notin DOMAIN button_id_to_claim)
        => (/\ http'.code = 200
            /\ http'.status = (IF http'.platform = "whatsapp" THEN "received" ELSE "success")
            /\ message_id_to_bot_message' = message_id_to_bot_message
            /\ button_id_to_claim' = button_id_to_claim) ]_vars

\* A Telegram callback with an unknown button id has been answered 'success'.
C3_UnknownCallbackAnswered ==
    /\ http.pc = "answered" /\ http.platform = "telegram"
    /\ http.event.shape = "callback_query"
    /\ http.event.callback_data = UNKNOWN_BUTTON
    /\ http.status = "success"

\* C9 as stated: every POST webhook request is answered with HTTP 200.
C9_WebhookAlwaysAnswers200 ==
    http.pc = "answered" => http.code = 200

\* C9, amended: the Telegram webhook answers every request with HTTP 200 (the
\* status in the body is 'error' when handling raised); the WhatsApp webhook
\* answers 200 / 'received' unless handling the payload raises something
\* other than a KeyError or IndexError inside message handling (no valid
\* envelope, a reaction message without its reaction object), and then
\* answers 500 'Message processing error'.
C9_AnswerIs200UnlessPayloadHandlingRaised ==
    http.pc = "answered" =>
        /\ http.platform = "telegram" => http.code = 200
        /\ http.platform = "whatsapp" =>
            IF \/ http.event.shape = "invalid"
               \/ /\ http.event.shape = "message"
                  /\ http.event.message.type = "reaction"
                  /\ ~http.event.message.has_reaction
            THEN http.code = 500 /\ http.status = "Message processing error"
            ELSE http.code = 200 /\ http.status = "received"

\* A reaction message without its reaction object has been answered 500, the
\* user's context list already created.
C9_MalformedReactionAnswered500 ==
    /\ http.pc = "answered" /\ http.platform = "whatsapp"
    /\ http.event.shape = "message" /\ http.event.message.type = "reaction"
    /\ ~http.event.message.has_reaction
    /\ http.code = 500
    /\ http.event.entry_id \in DOMAIN message_context

----------------------------------------------------------------------------
(* Conversation contexts of several senders.  Two WhatsApp users write to   *)
(* the same business account and two Telegram users to the bot; every       *)
(* sender's text names the sender, so that a context string shows whose     *)
(* lines it holds.  Only the webhook handlers run.                          *)

MaxIsoEvents == 4

IsoPhones == {"p1", "p2"}       \* contacts[0].wa_id of two WhatsApp users
IsoChats == {"c1", "c2"}        \* message.chat.id of two Telegram users

SenderText(sender) == <<"from", sender>>

IsoPayloads ==
    {[shape |-> "message", entry_id |-> e, wa_id |-> p,
      message |-> [type |-> "text", body |-> SenderText(p), context |-> "None"]] :
        e \in WaEntryIds, p \in IsoPhones}

IsoUpdates ==
    {[shape |-> "message", chat_id |-> c, text |-> SenderText(c)] : c \in IsoChats}

IsolationReceiveMessage ==
    /\ http.n < MaxIsoEvents
    /\ \E payload \in IsoPayloads :
         LET r == receive_message(payload, message_context,
                                  message_id_to_bot_message, button_id_to_claim)
         IN  /\ message_context' = r.message_context
             /\ tasks' = Append(tasks, r.queue)
             /\ built' = r.built[1]
             /\ http' = [pc |-> "answered", n |-> http.n + 1, platform |-> "whatsapp",
                         event |-> payload, code |-> r.code, status |-> r.status,
                         resolved |-> r.resolved]
    /\ UNCHANGED <<message_id_to_bot_message, button_id_to_claim, nextId, sent,
                   norm, intent, send, verify, disp, parse, boot, retry>>

IsolationTelegramWebhook ==
    /\ http.n < MaxIsoEvents
    /\ \E update \in IsoUpdates :
         LET r == telegram_webhook(update, TRUE, message_context, button_id_to_claim)
         IN  /\ message_context' = r.message_context
             /\ tasks' = Append(tasks, r.queue)
             /\ built' = r.built[1]
             /\ http' = [pc |-> "answered", n |-> http.n + 1, platform |-> "telegram",
                         event |-> update, code |-> r.code, status |-> r.status,
                         resolved |-> r.resolved]
    /\ UNCHANGED <<message_id_to_bot_message, button_id_to_claim, nextId, sent,
                   norm, intent, send, verify, disp, parse, boot, retry>>

InitIsolation ==
    /\ MainIdle
    /\ norm = Idle /\ intent = Idle /\ send = Idle /\ verify = Idle /\ disp = Idle
    /\ parse = Idle
    /\ boot = Idle /\ retry = Idle

NextIsolation ==
    \/ IsolationReceiveMessage
    \/ IsolationTelegramWebhook

SpecIsolation == InitIsolation /\ [][NextIsolation]_vars

\* The user whose message the answered request carried.
EventSender ==
    IF http.platform = "whatsapp" THEN http.event.wa_id ELSE http.event.chat_id

\* C11: the context string built for the message of one user holds no line
\* that was appended for a message of another user, on either platform.
C11_ContextHoldsOnlyOwnLines ==
    (http.pc = "answered" /\ built.pc = "built") =>
        \A i \in 1..Len(built.context) :
            built.context[i] \in IsoPhones \cup IsoChats =>
                built.context[i] = EventSender

----------------------------------------------------------------------------
(* Suggestions and the button table.                                        *)

\* The suggestion a button of a suggestion message stands for: the text of
\* the 'Claim N: ...' line its title 'Claim N' counts.
SuggestionOf(button) ==
    ClaimTexts[CHOOSE i \in DOMAIN ButtonTitles : ButtonTitles[i] = button.title]

\* The step in which the task at the head of queue q starts the send of an
\* interactive message.
ButtonsDispatched(old, new, q) ==
    /\ Len(new) = Len(old)
    /\ q \in DOMAIN old
    /\ old[q][1].pc # "sending"
    /\ new[q][1].pc = "sending"
    /\ new[q][1].buttons # <<>>

----------------------------------------------------------------------------
(* Turns and the messages they send.                                        *)

\* The background tasks that answer a text, image or button event.
IsTurnTask(task) ==
    task.fn \in {"process_message_response", "process_fact_check_response",
                 "process_image_response", "process_tracked_message"}

\* C13: the background task of an accepted text, image or button event does
\* not end before it has attempted to send a response or an apology: a task
\* only ends while a send of its is awaited.
C13_TurnEndsOnlyAfterSendAttempt ==
    [][ \A q \in DOMAIN tasks :
            (IsTurnTask(tasks[q][1]) /\ tasks[q][1].pc # "sending") =>
                (tasks' # DropQueue(q) /\ tasks' # FinishHead(q)) ]_vars

----------------------------------------------------------------------------
(* The bodies of POST /webhook.  The application of code/main.py validates  *)
(* the body against the WhatsAppWebhook model before its handler runs; the  *)
(* router's receive_message reads the body itself.  A body is no JSON, JSON *)
(* that is no object, or an object whose 'object' and 'entry' members are   *)
(* missing or hold a string, a number or a list.                            *)

MaxPosts == 2

TextFromP1 ==
    [shape |-> "message", entry_id |-> "waba", wa_id |-> "p1",
     message |-> [type |-> "text", body |-> <<"hi">>, context |-> "None"]]

PostBodies ==
    {[json |-> FALSE, dict |-> FALSE], [json |-> TRUE, dict |-> FALSE]}
    \cup {[json |-> TRUE, dict |-> TRUE, object |-> o, entry |-> e,
           payload |-> [shape |-> "status"]] :
            o \in {"missing", "str", "int"},
            e \in {"missing", "list", "str", "empty str", "int"}}
    \cup {[json |-> TRUE, dict |-> TRUE, object |-> o, entry |-> "list",
           payload |-> TextFromP1] : o \in {"missing", "str", "int"}}

\* WhatsAppWebhook: object: str and entry: list, both required.
WhatsAppWebhook(body) ==
    body.json /\ body.dict /\ body.object = "str" /\ body.entry = "list"

\* whatsapp_post(webhook): the handler runs on a validated body only; the
\* framework answers 422 for every other body.
whatsapp_post(body) ==
    IF WhatsAppWebhook(body)
    THEN [code |-> 200, status |-> "Webhook received"]
    ELSE [code |-> 422, status |-> "validation error"]

\* Variant: every body counts as having both keys.
HasEnvelopeAlways(body) == TRUE

\* all(key in payload for key in ["object", "entry"])
HasEnvelope(body) == body.object # "missing" /\ body.entry # "missing"

\* receive_message from request.json() on: a body that is no JSON, a number
\* where a container is needed, or no envelope raise inside the outer try;
\* the entries of a list are walked, a non-empty string has no .get, an
\* empty string has no entries.
receive_request(body, mc, id_to_message, id_to_claim) ==
    IF ~body.json \/ ~body.dict THEN MessageProcessingError(mc)
    ELSE IF ~HasEnvelope(body) THEN MessageProcessingError(mc)
    ELSE CASE body.entry = "list" ->
                  receive_message(body.payload, mc, id_to_message, id_to_claim)
           [] body.entry = "empty str" -> Received(mc, <<>>, <<>>, NotResolved)
           [] body.entry = "missing" -> Received(mc, <<>>, <<>>, NotResolved)
           [] OTHER -> MessageProcessingError(mc)

PostToLegacyApp ==
    /\ http.n < MaxPosts
    /\ \E body \in PostBodies :
         LET r == whatsapp_post(body)
         IN  http' = [pc |-> "answered", n |-> http.n + 1, app |-> "code/main.py",
                      event |-> body, code |-> r.code, status |-> r.status]
    /\ UNCHANGED <<message_context, message_id_to_bot_message, button_id_to_claim,
                   tasks, nextId, sent, built, norm, intent, send, verify, disp, parse, boot, retry>>

PostToRouter ==
    /\ http.n < MaxPosts
    /\ \E body \in PostBodies :
         LET r == receive_request(body, message_context, message_id_to_bot_message,
                                  button_id_to_claim)
         IN  /\ message_context' = r.message_context
             /\ tasks' = IF r.queue = <<>> THEN tasks ELSE Append(tasks, r.queue)
             /\ built' = IF r.built = <<>> THEN built ELSE r.built[1]
             /\ http' = [pc |-> "answered", n |-> http.n + 1, app |-> "router",
                         event |-> body, code |-> r.code, status |-> r.status]
    /\ UNCHANGED <<message_id_to_bot_message, button_id_to_claim, nextId, sent,
                   norm, intent, send, verify, disp, parse, boot, retry>>

InitPost ==
    /\ MainIdle
    /\ norm = Idle /\ intent = Idle /\ send = Idle /\ verify = Idle /\ disp = Idle
    /\ parse = Idle
    /\ boot = Idle /\ retry = Idle

NextPost ==
    \/ PostToLegacyApp
    \/ PostToRouter

SpecPost == InitPost /\ [][NextPost]_vars

\* A body that is no JSON, or lacks 'object' or 'entry'.
LacksEnvelope(body) ==
    ~body.json \/ ~body.dict \/ body.object = "missing" \/ body.entry = "missing"

\* A body whose 'object' or 'entry' has the wrong type.
WrongTypes(body) ==
    body.json /\ body.dict /\ ~LacksEnvelope(body)
    /\ (body.object # "str" \/ body.entry # "list")

StoresUnchanged ==
    /\ message_context' = message_context
    /\ message_id_to_bot_message' = message_id_to_bot_message
    /\ button_id_to_claim' = button_id_to_claim
    /\ tasks' = tasks

----------------------------------------------------------------------------
(* fact_checker/functions.py: parse_factiverse_response and the properties  *)
(* of FactCheckResult.  A JSON value is a record of its type and content; a *)
(* member of the first claim is MISSING when the key is absent.             *)

MISSING == [t |-> "missing"]
PyNone == [t |-> "None"]
PyInt(n) == [t |-> "int", v |-> n]
PyFloat(n) == [t |-> "float", v |-> n]        \* a float with an integral value
PyBool(b) == [t |-> "bool", v |-> IF b THEN 1 ELSE 0]
PyStr(s) == [t |-> "str", v |-> s]
PyList(s) == [t |-> "list", v |-> s]

\* value == 1 in Python: numbers compare by value, True is the number 1, a
\* string or None never equals a number.
EqualsOne(value) == value.t \in {"int", "float", "bool"} /\ value.v = 1

Predictions ==
    {MISSING, PyNone, PyInt(0), PyInt(1), PyInt(2), PyInt(-1), PyFloat(1),
     PyBool(TRUE), PyBool(FALSE), PyStr("1")}

FirstClaims ==
    [finalPrediction : Predictions,
     claim : {MISSING, PyStr("The earth is round."), PyNone},
     finalScore : {MISSING, PyFloat(1)},
     sources : {MISSING, PyList(<<"NASA">>)},
     evidence : {MISSING, PyList(<<>>)},
     explanation : {MISSING, PyStr("Well-established.")}]

\* The 'claims' member of a response: absent, the empty list, or a list
\* whose first element is one of FirstClaims.
Responses ==
    {[claims |-> "missing"], [claims |-> "empty"]}
    \cup {[claims |-> "list", first |-> c] : c \in FirstClaims}

\* dict.get(key, default): the default only when the key is absent.
GetOr(member, default) == IF member = MISSING THEN default ELSE member

\* Variant: every positive prediction counts as support.
VerdictOfPositive(prediction) ==
    IF prediction.t \in {"int", "float", "bool"} /\ prediction.v >= 1
    THEN "Supported" ELSE "Refuted"

\* verdict = "Supported" if prediction == 1 else "Refuted"
VerdictOf(prediction) == IF EqualsOne(prediction) THEN "Supported" ELSE "Refuted"

\* The fields FactCheckResult accepts: str, float, list, list, str.
FieldTypes ==
    [claim |-> {"str"}, confidence |-> {"float", "int"}, sources |-> {"list"},
     evidence |-> {"list"}, explanation |-> {"str"}]

parse_factiverse_response(response) ==
    IF response.claims = "empty" THEN [raised |-> "IndexError"]
    ELSE LET first_claim == IF response.claims = "missing"
                            THEN [k \in {"finalPrediction", "claim", "finalScore",
                                         "sources", "evidence", "explanation"} |-> MISSING]
                            ELSE response.first
             prediction == IF first_claim.finalPrediction = MISSING THEN PyNone
                           ELSE first_claim.finalPrediction
             fields == [claim |-> GetOr(first_claim.claim, PyStr("No claim text available")),
                        confidence |-> GetOr(first_claim.finalScore, PyFloat(0)),
                        sources |-> GetOr(first_claim.sources, PyList(<<>>)),
                        evidence |-> GetOr(first_claim.evidence, PyList(<<>>)),
                        explanation |-> GetOr(first_claim.explanation,
                                              PyStr("No explanation available"))]
         IN  IF \E f \in DOMAIN fields : fields[f].t \notin FieldTypes[f]
             THEN [raised |-> "ValidationError"]
             ELSE [raised |-> "no", verdict |-> <<VerdictOf(prediction)>>,
                   claim |-> fields.claim.v, confidence |-> fields.confidence.v,
                   sources |-> fields.sources.v, evidence |-> fields.evidence.v,
                   explanation |-> fields.explanation.v]

\* Verdict strings as sequences of pieces, for results built directly.
VerdictPieces == {"S", "s", "upported", "UPPORTED", "Refuted", " "}

MaxVerdictLen == 2

\* str.lower(), piece by piece.
Lower(piece) ==
    CASE piece = "S" -> "s"
      [] piece = "UPPORTED" -> "upported"
      [] piece = "Refuted" -> "refuted"
      [] OTHER -> piece

\* FactCheckResult.is_supported: self.verdict.lower() == "supported"
is_supported(verdict) ==
    Flatten([i \in 1..Len(verdict) |->
                IF verdict[i] \in {"Supported", "Refuted"}
                THEN IF verdict[i] = "Supported" THEN <<"s", "upported">>
                     ELSE <<"refuted">>
                ELSE <<Lower(verdict[i])>>])
    = <<"s", "upported">>

ParseInit ==
    parse \in {[pc |-> "response", response |-> r] : r \in Responses}
              \cup {[pc |-> "built", result |-> [raised |-> "no", verdict |-> v]] :
                        v \in SeqsUpTo(VerdictPieces, MaxVerdictLen)}

ParseFactiverseResponse ==
    /\ parse.pc = "response"
    /\ parse' = [parse EXCEPT !.pc = "built"] @@
                [result |-> parse_factiverse_response(parse.response)]
    /\ UNCHANGED <<mainVars, norm, intent, send, verify, disp, boot, retry>>

IsSupported ==
    /\ parse.pc = "built"
    /\ parse.result.raised = "no"
    /\ parse' = [parse EXCEPT !.pc = "read"] @@
                [is_supported |-> is_supported(parse.result.verdict)]
    /\ UNCHANGED <<mainVars, norm, intent, send, verify, disp, boot, retry>>

InitParse ==
    /\ ParseInit /\ MainIdle
    /\ norm = Idle /\ intent = Idle /\ send = Idle /\ verify = Idle /\ disp = Idle
    /\ boot = Idle /\ retry = Idle

NextParse ==
    \/ ParseFactiverseResponse
    \/ IsSupported

SpecParse == InitParse /\ [][NextParse]_vars

\* The two spellings of a letter, for comparing without regard to case.
SameLetters(a, b) ==
    LET Spelt(v) == Flatten([i \in 1..Len(v) |->
                        CASE v[i] \in {"S", "s"} -> <<"s">>
                          [] v[i] \in {"upported", "UPPORTED"} -> <<"upported">>
                          [] v[i] = "Supported" -> <<"s", "upported">>
                          [] OTHER -> <<v[i]>>])
    IN  Spelt(a) = Spelt(b)

\* C15: a result parsed from a response with a first claim (or without a
\* 'claims' member) has verdict 'Supported' exactly when the first claim's
\* finalPrediction equals 1 and 'Refuted' for every other value, a missing
\* one included; claim, confidence, sources, evidence and explanation are
\* the first claim's claim, finalScore, sources, evidence and explanation,
\* with the defaults for the members it lacks; is_supported is true exactly
\* when the verdict is 'supported' without regard to case.
C15_VerdictFieldsAndIsSupported ==
    /\ (parse.pc \in {"built", "read"} /\ "response" \in DOMAIN parse
        /\ parse.result.raised = "no") =>
            LET r == parse.result
                given == parse.response.claims = "list"
                c == parse.response.first
                Has(k) == given /\ c[k] # MISSING
            IN  /\ r.verdict = (IF Has("finalPrediction") /\ EqualsOne(c.finalPrediction)
                                THEN <<"Supported">> ELSE <<"Refuted">>)
                /\ r.claim = (IF Has("claim") THEN c.claim.v
                              ELSE "No claim text available")
                /\ r.confidence = (IF Has("finalScore") THEN c.finalScore.v ELSE 0)
                /\ r.sources = (IF Has("sources") THEN c.sources.v ELSE <<>>)
                /\ r.evidence = (IF Has("evidence") THEN c.evidence.v ELSE <<>>)
                /\ r.explanation = (IF Has("explanation") THEN c.explanation.v
                                    ELSE "No explanation available")
    /\ parse.pc = "read" =>
            (parse.is_supported <=> SameLetters(parse.result.verdict, <<"s", "upported">>))

\* A first claim with finalPrediction 2 and no explanation has been parsed
\* and is_supported read: 'Refuted', the default explanation, not supported.
C15_PredictionTwoParsedAsRefuted ==
    /\ parse.pc = "read" /\ "response" \in DOMAIN parse
    /\ parse.response.claims = "list"
    /\ parse.response.first.finalPrediction = PyInt(2)
    /\ parse.response.first.explanation = MISSING
    /\ parse.result.verdict = <<"Refuted">>
    /\ parse.result.explanation = "No explanation available"
    /\ ~parse.is_supported

----------------------------------------------------------------------------
(* Redelivery.  The platform delivers an event under the id of its inbound  *)
(* message and may deliver the same event again.  WhatsApp's handler keeps  *)
(* no record of the ids it has seen; Telegram's records a text or an image  *)
(* in the messages table, whose primary key is message_id, so the INSERT of *)
(* an id that is already a row raises.  http carries the deliveries so far  *)
(* and the rows of the table.  Only the webhook handlers run.               *)

MaxDeliveries == 3

InboundIds == {"in.1", "in.2"}

RedeliveryPayloads ==
    {[shape |-> "message", entry_id |-> e, wa_id |-> p,
      message |-> [type |-> "text", body |-> r, context |-> "None"]] :
        e \in WaEntryIds, p \in WaPhones, r \in RawTexts}

RedeliveryUpdates ==
    {[shape |-> "message", chat_id |-> c, text |-> t] : c \in TgChats, t \in RawTexts}
    \cup {[shape |-> "image", chat_id |-> c, caption |-> <<>>] : c \in TgChats}

Deliveries == IF http.pc = "idle" THEN {} ELSE http.deliveries
Rows == IF http.pc = "idle" THEN {} ELSE http.rows

\* The request for `event` under `message_id` has been answered with r: the
\* handler's effects, and whether it did the work of a turn.
Delivered(platform, message_id, event, r, rows) ==
    LET worked == r.queue # <<>> \/ r.message_context # message_context
    IN  /\ message_context' = r.message_context
        /\ tasks' = IF r.queue = <<>> THEN tasks ELSE Append(tasks, r.queue)
        /\ built' = IF r.built = <<>> THEN built ELSE r.built[1]
        /\ http' = [pc |-> "answered", n |-> http.n + 1, platform |-> platform,
                    event |-> event, id |-> message_id, code |-> r.code,
                    status |-> r.status, resolved |-> r.resolved,
                    again |-> \E d \in Deliveries :
                                /\ d.platform = platform /\ d.id = message_id
                                /\ d.worked,
                    rows |-> rows,
                    deliveries |-> Deliveries \cup
                        {[platform |-> platform, id |-> message_id,
                          event |-> event, worked |-> worked]}]
        /\ UNCHANGED <<message_id_to_bot_message, button_id_to_claim, nextId, sent,
                       norm, intent, send, verify, disp, parse, boot, retry>>

\* record_conversation_message succeeds only for a message_id that is no row
\* yet, and not always then (the database may be unreachable).
DbOutcomes(message_id) == IF message_id \in Rows THEN {FALSE} ELSE BOOLEAN

DeliverToWhatsapp ==
    /\ http.n < MaxDeliveries
    /\ \E message_id \in InboundIds, payload \in RedeliveryPayloads :
         /\ \A d \in Deliveries : ~(d.platform = "whatsapp" /\ d.id = message_id)
         /\ Delivered("whatsapp", message_id, payload,
                      receive_message(payload, message_context,
                                      message_id_to_bot_message, button_id_to_claim),
                      Rows)

RedeliverToWhatsapp ==
    /\ http.n < MaxDeliveries
    /\ \E d \in Deliveries :
         /\ d.platform = "whatsapp"
         /\ Delivered("whatsapp", d.id, d.event,
                      receive_message(d.event, message_context,
                                      message_id_to_bot_message, button_id_to_claim),
                      Rows)

DeliverToTelegram ==
    /\ http.n < MaxDeliveries
    /\ \E message_id \in InboundIds, update \in RedeliveryUpdates :
         /\ \A d \in Deliveries : ~(d.platform = "telegram" /\ d.id = message_id)
         /\ \E db_ok \in DbOutcomes(message_id) :
              Delivered("telegram", message_id, update,
                        telegram_webhook(update, db_ok, message_context,
                                         button_id_to_claim),
                        IF db_ok THEN Rows \cup {message_id} ELSE Rows)

RedeliverToTelegram ==
    /\ http.n < MaxDeliveries
    /\ \E d \in Deliveries :
         /\ d.platform = "telegram"
         /\ \E db_ok \in DbOutcomes(d.id) :
              Delivered("telegram", d.id, d.event,
                        telegram_webhook(d.event, db_ok, message_context,
                                         button_id_to_claim),
                        IF db_ok THEN Rows \cup {d.id} ELSE Rows)

InitRedelivery ==
    /\ MainIdle
    /\ norm = Idle /\ intent = Idle /\ send = Idle /\ verify = Idle /\ disp = Idle
    /\ parse = Idle
    /\ boot = Idle /\ retry = Idle

NextRedelivery ==
    \/ DeliverToWhatsapp
    \/ RedeliverToWhatsapp
    \/ DeliverToTelegram
    \/ RedeliverToTelegram

SpecRedelivery == InitRedelivery /\ [][NextRedelivery]_vars

\* C16: the delivery of an event whose earlier delivery did the work of the
\* turn appends no line to a context and schedules no task, on either
\* platform.
C16_RedeliveryDoesNoWork ==
    [][ (http'.pc = "answered" /\ http'.n = http.n + 1 /\ http'.again) =>
            (message_context' = message_context /\ tasks' = tasks) ]_vars

----------------------------------------------------------------------------
(* The dispatcher's choice of path.                                         *)

\* The calls of the handled turn to the service `fn`, in call order.
CallsTo(fn) == SelectSeq(disp.result.calls, LAMBDA c : c.fn = fn)

\* The turn of a message without URL.
IsPlainTurn == disp.pc = "handled" /\ FindUrls(disp.message_text) = <<>>

\* The classifier answered a short message with an object whose intent_type
\* is missing or neither fact_check nor general.
IsUnrecognisedIntentTurn ==
    /\ IsPlainTurn
    /\ Len(disp.message_text) < 100
    /\ disp.env.intent.kind = "dict"
    /\ DictGet(disp.env.intent.value, "intent_type") \notin {"fact_check", "general"}

\* C17: for a short message without URL whose classifier response has an
\* intent_type other than fact_check or general, or none, the dispatcher
\* runs stance detection on exactly the list [message_text].
C17_UnrecognisedIntentDefaultsToFactCheck ==
    IsUnrecognisedIntentTurn =>
        CallsTo("stance_detection") = <<Call("stance_detection", disp.message_text)>>

\* C18: when a message of 100 words or more without URL has no claims
\* (detect_claims returns the empty list), the dispatcher returns the
\* claim-suggestion tuple and makes no general-conversation generator call.
C18_NoClaimsFoundEndsInSuggest ==
    (IsPlainTurn /\ Len(disp.message_text) >= 100 /\ disp.env.detected = <<>>) =>
        /\ disp.result.kind = "tuple" /\ disp.result.via = "suggest"
        /\ Call("generate", <<"general">>) \notin Range(disp.result.calls)

C20_OnlyFirstUrlFactChecked ==
    (disp.pc = "handled" /\ Len(FindUrls(disp.message_text)) > 1) =>
        CallsTo("fact_check") =
            <<Call("fact_check", <<FindUrls(disp.message_text)[1]>>)>>

----------------------------------------------------------------------------
(* The lines of the context store.                                          *)

\* The step is the answer to a request that carried a text message and was
\* handed to process_message_response: its store key and normalized text.
TextTurnAccepted ==
    /\ http'.pc = "answered" /\ http'.n = http.n + 1
    /\ http'.event.shape = "message"
    /\ Len(tasks') = Len(tasks) + 1
    /\ tasks'[Len(tasks')][1].fn = "process_message_response"

TextTurnKey ==
    IF http'.platform = "whatsapp" THEN http'.event.entry_id ELSE http'.event.chat_id

TextTurnLine ==
    UserLine(normalize(IF http'.platform = "whatsapp" THEN http'.event.message.body
                       ELSE http'.event.text))

\* C21: the handler of every inbound text message that goes on to dispatch
\* has appended exactly one 'User: <text>' line to the sender's context, a
\* quoted reply to a tracked bot message included.
C21_TextMessageAppendsOneUserLine ==
    [][ TextTurnAccepted =>
            /\ TextTurnKey \in DOMAIN message_context'
            /\ message_context'[TextTurnKey] =
                 Append(Get(message_context, TextTurnKey, <<>>), TextTurnLine) ]_vars

\* C22: in every reachable state each 'Bot: <text>' line of a context is the
\* line of a message whose platform send has succeeded; a send that is still
\* awaited or has failed leaves no Bot line.
C22_BotLineOnlyAfterSuccessfulSend ==
    \A u \in DOMAIN message_context :
        \A i \in 1..Len(message_context[u]) :
            LET line == message_context[u][i]
            IN  (line # <<>> /\ Head(line) = "Bot: ") =>
                    \E id \in DOMAIN sent : line = BotLine(sent[id].response)

----------------------------------------------------------------------------
(* The id process_tracked_message records for a sent response.              *)

\* C23: the platform answer a successful send returns to
\* process_tracked_message, whose message id becomes the key of the
\* response in message_id_to_bot_message, is the answer to the post that
\* carried the response text: with buttons, with a rating prompt or plain,
\* and whatever the length of the response.
C23_RecordedIdIsOfMessageCarryingResponse ==
    (send.pc = "done" /\ ~send.out.raised) =>
        send.out.dispatched[send.out.returned].body.about = "response"

----------------------------------------------------------------------------
(* Appends for a user key without a sequence.                               *)

\* The step runs the task at the head of queue q from its start.
RunsFromStart(q) ==
    /\ tasks[q][1].pc = "start"
    /\ http' = http
    /\ \/ tasks' = DropQueue(q)
       \/ Len(tasks') = Len(tasks) /\ tasks'[q] # tasks[q]

\* C24: when a task that answers a user runs for a user key that has no
\* sequence in the context store, its append creates the sequence with the
\* appended line; no KeyError ends the task.
C24_AppendCreatesMissingSequence ==
    [][ \A q \in DOMAIN tasks :
            (/\ IsTurnTask(tasks[q][1])
             /\ tasks[q][1].user_id \notin DOMAIN message_context
             /\ RunsFromStart(q)) =>
                /\ tasks[q][1].user_id \in DOMAIN message_context'
                /\ message_context'[tasks[q][1].user_id] # <<>>
                /\ tasks' # DropQueue(q) ]_vars

----------------------------------------------------------------------------
(* Interleaved writers of one context.  A handler runs from the parsed      *)
(* request to its return, and a task from one await to the next, without    *)
(* yielding to the event loop; the calls a turn fans out write no context.  *)

\* C25: under every interleaving of webhook handlers and background tasks,
\* a step only extends contexts at their end: every line present before the
\* step is still there, in the same place, no user's sequence disappears,
\* and a task that goes on to the send of a response has added the bot line
\* of that response as the last line, once.
C25_AppendsOnlyExtendContexts ==
    [][ /\ \A u \in DOMAIN message_context :
             /\ u \in DOMAIN message_context'
             /\ Len(message_context'[u]) >= Len(message_context[u])
             /\ SubSeq(message_context'[u], 1, Len(message_context[u]))
                  = message_context[u]
        /\ \A q \in DOMAIN tasks :
             (/\ Len(tasks') = Len(tasks)
              /\ tasks'[q] # tasks[q]
              /\ tasks'[q][1].pc = "sending") =>
                LET u == tasks'[q][1].user_id
                    old == message_context[u]
                    new == message_context'[u]
                IN  /\ new[Len(new)] = BotLine(tasks'[q][1].response)
                    /\ Len(new) \in {Len(old) + 1, Len(old) + 2}
                    /\ Len(new) = Len(old) + 2 =>
                         tasks[q][1].fn = "process_image_response" ]_vars

\* Two messages of one user were received before either was answered, and
\* both turns have appended their bot line: two user lines, two bot lines.
C25_TwoTurnsOfOneUserInterleaved ==
    \E u \in DOMAIN message_context :
        LET lines == message_context[u]
        IN  /\ Len(lines) = 4
            /\ Head(lines[1]) = "User: " /\ Head(lines[2]) = "User: "
            /\ Head(lines[3]) = "Bot: " /\ Head(lines[4]) = "Bot: "

----------------------------------------------------------------------------
(* Ratings.                                                                 *)

\* The answered request carried a numeric rating: a Telegram message of the
\* rating keyboard, or the selection of a row of WhatsApp's rating list.
IsRatingEvent ==
    /\ http'.pc = "answered" /\ http'.n = http.n + 1
    /\ http'.code = 200 /\ http'.status # "error"
    /\ IF http'.platform = "telegram"
       THEN http'.event.shape = "message" /\ rating_match(http'.event.text)
       ELSE /\ http'.event.shape = "message"
            /\ http'.event.message.type = "interactive"
            /\ http'.event.message.kind = "list_reply"

\* C26: a numeric rating given while the table tracks a bot message
\* schedules process_rating with the text or the id of a tracked bot message
\* as the subject of the feedback.
C26_RatingResolvedToBotMessage ==
    [][ (IsRatingEvent /\ DOMAIN message_id_to_bot_message # {}) =>
            /\ Len(tasks') = Len(tasks) + 1
            /\ \E i \in DOMAIN tasks'[Len(tasks')] :
                 LET task == tasks'[Len(tasks')][i]
                 IN  /\ task.fn = "process_rating"
                     /\ \E id \in DOMAIN message_id_to_bot_message :
                          task.claim \in {<<id>>, message_id_to_bot_message[id]} ]_vars

----------------------------------------------------------------------------
(* The shapes of the stored lines.                                          *)

ContextLines == UNION {Range(message_context[u]) : u \in DOMAIN message_context}

\* The last piece of the line ends with the newline.
EndsWithNewline(line) == line[Len(line)] \in {"\n", "'\n", ")\n"}

\* C27 as stated: every line of every context is 'User: <text>' or
\* 'Bot: <text>', ended by a newline.
C27_LinesAreUserOrBot ==
    \A line \in ContextLines :
        Head(line) \in {"User: ", "Bot: "} /\ EndsWithNewline(line)

\* C27 as the handlers store lines: every line of every context ends with a
\* newline and begins with 'User: ', 'Bot: ', 'User selected: ',
\* 'User reacted with ', 'User rated with ' or 'User sent image with text: '.
C27_LinesHaveOneOfSixShapes ==
    \A line \in ContextLines :
        /\ Head(line) \in {"User: ", "Bot: ", "User selected: ", "User reacted with '",
                           "User rated with '", "User sent image with text: "}
        /\ EndsWithNewline(line)

\* A button selection has been stored next to a user line and a bot line.
C27_SelectionStoredAfterUserAndBotLine ==
    \E u \in DOMAIN message_context :
        {"User: ", "Bot: ", "User selected: "}
            \subseteq {Head(line) : line \in Range(message_context[u])}

----------------------------------------------------------------------------
(* The number of suggestions of a Suggest turn.                             *)

MAX_BUTTONS == 3

\* send_interactive_buttons, both platforms: for button in buttons[:3]
FormattedButtons(buttons) ==
    SubSeq(buttons, 1, IF Len(buttons) < MAX_BUTTONS THEN Len(buttons) ELSE MAX_BUTTONS)

\* The turn ended in the claim-suggestion tuple.
IsSuggestTurn == disp.pc = "handled" /\ disp.result.via = "suggest"

\* C28: a Suggest turn offers at most 3 buttons and hands at most 3 entries
\* to button_id_to_claim, whatever number of 'Claim N:' lines the generator
\* returns.
C28_AtMostThreeSuggestions ==
    IsSuggestTurn =>
        /\ Len(FormattedButtons(disp.result.buttons)) <= 3
        /\ Cardinality(DOMAIN disp.result.btn_id_to_claim) <= 3

----------------------------------------------------------------------------
(* Start-up and the module-level dictionaries.  processors.py creates three *)
(* dicts (lines 20-22); the WhatsApp router creates its own (routers.py     *)
(* 26-28) and hands them to initialize_state, which rebinds the names of    *)
(* processors; the Telegram router binds its names with                     *)
(* 'from ...processors import button_id_to_claim, message_context', to the  *)
(* objects the names of processors hold at that moment.  A name is bound to *)
(* the module whose statement created the object; the heap holds, for each  *)
(* object, the button table and the contexts written through it.            *)

MaxServed == 4      \* requests and turns after start-up

\* main.py imports src.platform.telegram.routers: the package's __init__
\* imports the whatsapp package first, whose __init__ imports processors and
\* then the WhatsApp router; the Telegram router's module body runs last.
ImportOrderTelegramFirst == <<"processors", "telegram", "whatsapp">>

ImportOrder == <<"processors", "whatsapp", "telegram">>

EmptyDicts == [button_id_to_claim |-> <<>>, message_context |-> <<>>]

BootUsers == {"waba", "c1"}

\* The module body of `module` has run.
Imported(module, names, heap) ==
    CASE module = "processors" ->
            [names |-> ("processors" :> "processors") @@ names,
             heap |-> ("processors" :> EmptyDicts) @@ heap]
      [] module = "whatsapp" ->
            \* the dicts of lines 26-28, then initialize_state(...)
            [names |-> ("whatsapp" :> "whatsapp") @@ ("processors" :> "whatsapp") @@ names,
             heap |-> ("whatsapp" :> EmptyDicts) @@ heap]
      [] OTHER ->
            [names |-> ("telegram" :> names["processors"]) @@ names, heap |-> heap]

\* The dicts a module's names are bound to.
Dicts(module) == boot.heap[boot.names[module]]

Written(module, dicts) ==
    [boot EXCEPT !.heap = (boot.names[module] :> dicts) @@ @, !.served = @ + 1,
                 !.lookup = <<>>, !.raised = <<>>]

ImportModule ==
    /\ boot.pc = "importing"
    /\ LET r == Imported(Head(boot.todo), boot.names, boot.heap)
       IN  boot' = [boot EXCEPT !.names = r.names, !.heap = r.heap,
                                !.todo = Tail(@),
                                !.pc = IF Len(boot.todo) = 1 THEN "serving"
                                       ELSE "importing"]
    /\ UNCHANGED <<mainVars, norm, intent, send, verify, disp, parse, retry>>

\* A router stores the line of a text message: the sequence is created when
\* absent, through the router's own name.
RouterStoresUserLine ==
    /\ boot.pc = "serving" /\ boot.served < MaxServed
    /\ \E router \in {"whatsapp", "telegram"}, user_id \in BootUsers :
         LET d == Dicts(router)
             lines == Get(d.message_context, user_id, <<>>)
         IN  boot' = Written(router,
                        [d EXCEPT !.message_context =
                            (user_id :> Append(lines, UserLine(<<"hi">>))) @@ @])
    /\ UNCHANGED <<mainVars, norm, intent, send, verify, disp, parse, retry>>

\* process_message_response records the buttons of a Suggest turn and
\* process_tracked_message appends the bot line, through the names of
\* processors; the append is a KeyError when the user has no sequence there.
ProcessorsAnswerWithButtons ==
    /\ boot.pc = "serving" /\ boot.served < MaxServed
    /\ \E user_id \in BootUsers, id \in ButtonIds, k \in 1..2 :
         LET d == Dicts("processors")
             recorded == [d EXCEPT !.button_id_to_claim =
                             RecordButtons(@, id :> ClaimTexts[k])]
         IN  IF user_id \in DOMAIN d.message_context
             THEN boot' = Written("processors",
                             [recorded EXCEPT !.message_context[user_id] =
                                 Append(@, BotLine(ClaimTexts[k]))])
             ELSE boot' = [Written("processors", recorded) EXCEPT !.raised = <<user_id>>]
    /\ UNCHANGED <<mainVars, norm, intent, send, verify, disp, parse, retry>>

\* A router looks a button id up: `if callback_data in button_id_to_claim`
\* (Telegram), `if button_id in button_id_to_claim` (WhatsApp).
RouterLooksButtonUp ==
    /\ boot.pc = "serving" /\ boot.served < MaxServed
    /\ \E router \in {"whatsapp", "telegram"}, id \in ButtonIds :
         LET table == Dicts(router).button_id_to_claim
         IN  boot' = [boot EXCEPT !.served = @ + 1, !.raised = <<>>,
                        !.lookup = <<[router |-> router, id |-> id,
                                      found |-> Tracked(table, id),
                                      claim |-> Get(table, id, <<>>)]>>]
    /\ UNCHANGED <<mainVars, norm, intent, send, verify, disp, parse, retry>>

InitStartup ==
    /\ boot = [pc |-> "importing", todo |-> ImportOrder, names |-> <<>>,
               heap |-> <<>>, served |-> 0, lookup |-> <<>>, raised |-> <<>>]
    /\ MainIdle
    /\ norm = Idle /\ intent = Idle /\ send = Idle /\ verify = Idle /\ disp = Idle
    /\ parse = Idle /\ retry = Idle

NextStartup ==
    \/ ImportModule
    \/ RouterStoresUserLine
    \/ ProcessorsAnswerWithButtons
    \/ RouterLooksButtonUp

SpecStartup == InitStartup /\ [][NextStartup]_vars

----------------------------------------------------------------------------
(* The retrying client (fact_checker/utils.py): stance_detection and        *)
(* fact_check post the request up to max_retries + 1 times.  An attempt     *)
(* ends with a response whose body is JSON or not, with a status that       *)
(* raise_for_status turns into HTTPStatusError, or with a RequestError      *)
(* (connection failure, timeout).  retry holds the call, the number of the  *)
(* attempt (from 0), what every attempt so far ended with and the seconds   *)
(* slept between them.                                                      *)

max_retries == 3
retry_delay == 1

ErrorStatuses == {302, 400, 404, 429, 500, 503}

AttemptOutcomes ==
    {[kind |-> "json"], [kind |-> "not json"], [kind |-> "RequestError"]}
    \cup {[kind |-> "HTTPStatusError", status |-> s] : s \in ErrorStatuses}

\* Variant: every status error is retried while attempts are left.
RetriesEveryStatus(attempt, outcome) ==
    /\ attempt < max_retries
    /\ outcome.kind \in {"HTTPStatusError", "RequestError"}

\* The conditions of the two except clauses under which the loop continues.
Retries(attempt, outcome) ==
    \/ outcome.kind = "HTTPStatusError" /\ attempt < max_retries /\ outcome.status >= 500
    \/ outcome.kind = "RequestError" /\ attempt < max_retries

\* retry_delay * (2**attempt)
Backoff(attempt) == retry_delay * (2 ^ attempt)

RetryInit ==
    retry \in {[pc |-> "called", fn |-> f, attempt |-> 0, outcomes |-> <<>>,
                slept |-> <<>>] : f \in {"stance_detection", "fact_check"}}

\* The statements before the loop: fact_check builds its payload with
\* detect(claims[0]), which raises for a text without language features.
BuildPayload ==
    /\ retry.pc = "called"
    /\ \E detected \in BOOLEAN :
         retry' = IF retry.fn = "fact_check" /\ ~detected
                  THEN [retry EXCEPT !.pc = "raised"] @@ [exc |-> "LangDetectException"]
                  ELSE [retry EXCEPT !.pc = "attempt"]
    /\ UNCHANGED <<mainVars, norm, intent, send, verify, disp, parse, boot>>

\* One pass of the loop body, up to its return, raise or sleep.
PostAttempt ==
    /\ retry.pc = "attempt"
    /\ \E o \in AttemptOutcomes :
         LET seen == [retry EXCEPT !.outcomes = Append(@, o)]
         IN  retry' =
               CASE o.kind = "json" -> [seen EXCEPT !.pc = "returned"] @@ [value |-> "json"]
                 [] o.kind = "not json" ->
                        [seen EXCEPT !.pc = "raised"] @@ [exc |-> "JSONDecodeError"]
                 [] Retries(retry.attempt, o) -> [seen EXCEPT !.pc = "sleeping"]
                 [] OTHER ->
                        [seen EXCEPT !.pc = "raised"] @@
                        [exc |-> "HTTPException",
                         status_code |-> IF o.kind = "RequestError" THEN 503 ELSE o.status]
    /\ UNCHANGED <<mainVars, norm, intent, send, verify, disp, parse, boot>>

\* asyncio.sleep returns and `continue` takes the next value of the range;
\* when the range is exhausted the function returns None.
SleepReturns ==
    /\ retry.pc = "sleeping"
    /\ retry' = IF retry.attempt + 1 <= max_retries
                THEN [retry EXCEPT !.pc = "attempt", !.attempt = @ + 1,
                                   !.slept = Append(@, Backoff(retry.attempt))]
                ELSE [retry EXCEPT !.pc = "returned",
                                   !.slept = Append(@, Backoff(retry.attempt))]
                     @@ [value |-> "None"]
    /\ UNCHANGED <<mainVars, norm, intent, send, verify, disp, parse, boot>>

InitRetry ==
    /\ RetryInit /\ MainIdle
    /\ norm = Idle /\ intent = Idle /\ send = Idle /\ verify = Idle /\ disp = Idle
    /\ parse = Idle /\ boot = Idle

NextRetry ==
    \/ BuildPayload
    \/ PostAttempt
    \/ SleepReturns

\* The event loop runs the coroutine to its end: every post ends within the
\* client's timeout and every sleep returns.
SpecRetry == InitRetry /\ [][NextRetry]_vars /\ WF_vars(NextRetry)

RetryEnded == retry.pc \in {"returned", "raised"}

\* What holds of the attempts in every state of a call.
RetryDiscipline ==
    /\ Len(retry.outcomes) <= max_retries + 1
    /\ retry.slept = SubSeq(<<1, 2, 4>>, 1, Len(retry.slept))
    /\ \A i \in 1..Len(retry.outcomes) :
         i < Len(retry.outcomes) \/ retry.pc = "sleeping" =>
            LET o == retry.outcomes[i]
            IN  \/ o.kind = "RequestError"
                \/ o.kind = "HTTPStatusError" /\ o.status >= 500
    /\ retry.pc = "returned" => retry.value # "None"

=============================================================================
